---- MODULE Spec2Model ----
(***************************************************************************)
(* Genetic-programming strategy search (src/genetic/strategy_ga.py) with   *)
(* its risk helper (src/genetic/metrics.py).                               *)
(*                                                                         *)
(* Number representation                                                   *)
(*   raw expression values, features : hundredths (0.21 is 21), extended   *)
(*       with the three non-finite floats NaN, PInf, NInf                  *)
(*   returns                         : tenths (0.5 is 5)                   *)
(*   equity, total return, drawdown  : 1e-4 units (1.0 is 10000)           *)
(*   fitness                         : [w, f] = w + f * 1e-5, 0 <= f < 1e5 *)
(*       (two limbs: the failure floor -1e9 does not fit one 32 bit limb   *)
(*       at the 1e-5 resolution the third tier needs)                      *)
(***************************************************************************)
EXTENDS Integers, Sequences, FiniteSets, TLC

\* ------------------------------------------------------------------ bounds
\* rows of a feature table / return series handed to one call
MaxRows == 3
\* period of the model of the process-wide random generator
RngPeriod == 4
\* random draws followed between two calls of one compiled signal
MaxDraws == 2
\* toolbox.population(400): individuals per generation
POP_SIZE == 2
\* range(200): the generation budget
NGEN == 2
\* tools.HallOfFame(10): capacity of the Hall of Fame
HOF_MAXSIZE == 2
\* len(regime_labels): periods given to calculate_transition_matrix
MaxLabels == 3
\* len(forecasts): assets of one forecast row
MaxAssets == 3
\* len(self.fred_variables): series fetch_macroeconomic_data asks for
MaxSeries == 5
\* len(df): rows of the table given to train_val_test_split
MaxSplitRows == 6

\* --------------------------------------------------------- extended reals
PInf == 1000000
NInf == -1000000
NaN == 2000000
MaxFinite == 999999

IsNaN(v) == v = NaN
IsFinite(v) == v > NInf /\ v < PInf

\* a float result that leaves the finite range becomes an infinity
Overflow(n) == IF n > MaxFinite THEN PInf ELSE IF n < -MaxFinite THEN NInf ELSE n

\* lambda a, b: a + b
ExtAdd(a, b) ==
    IF IsNaN(a) \/ IsNaN(b) THEN NaN
    ELSE IF a = PInf THEN (IF b = NInf THEN NaN ELSE PInf)
    ELSE IF a = NInf THEN (IF b = PInf THEN NaN ELSE NInf)
    ELSE IF b = PInf \/ b = NInf THEN b
    ELSE Overflow(a + b)

\* lambda a, b: a - b
ExtSub(a, b) == ExtAdd(a, IF IsNaN(b) THEN NaN ELSE -b)

\* np.abs
ExtAbs(a) == IF IsNaN(a) THEN NaN ELSE IF a < 0 THEN -a ELSE a

\* ------------------------------------------------------- random generator
\* The process-wide generator of the random module, as a full-period
\* congruential generator over RngPeriod states.
SEED == 42
RngStates == 0..(RngPeriod - 1)
SeedState == SEED % RngPeriod
NextRng(s) == (s + 3) % RngPeriod
\* random.random(): the value (hundredths, in [0, 1)) drawn in state s
Random(s) == (s * 100) \div RngPeriod

\* ------------------------------------------------------- expression trees
\* A PrimitiveTree is the list of its nodes in prefix order.
Prim(n, k) == [name |-> n, arity |-> k, value |-> 0]
ARG0 == [name |-> "ARG0", arity |-> 0, value |-> 0]
\* the ephemeral constant "rand": its value is drawn when the node is built
Constant(v) == [name |-> "rand", arity |-> 0, value |-> v]

TerminalValueAsResampled(node, x, s) == IF node.name = "ARG0" THEN x ELSE Random(s)
\* value of a terminal node on a row whose feature is x, the generator
\* being in state s when the compiled function is called
TerminalValue(node, x, s) == IF node.name = "ARG0" THEN x ELSE node.value

\* ------------------------------------------------------------ primitives
IsInf(v) == v = PInf \/ v = NInf
\* n with the sign of a product or quotient of a and b
SignedInt(a, b, n) == IF (a > 0) = (b > 0) THEN n ELSE -n

\* lambda a, b: a * b
ExtMul(a, b) ==
    IF IsNaN(a) \/ IsNaN(b) THEN NaN
    ELSE IF IsInf(a) \/ IsInf(b) THEN (IF a = 0 \/ b = 0 THEN NaN ELSE SignedInt(a, b, PInf))
    ELSE IF a = 0 \/ b = 0 THEN 0
    ELSE IF ExtAbs(b) > (MaxFinite * 100) \div ExtAbs(a) THEN SignedInt(a, b, PInf)
    ELSE Overflow(SignedInt(a, b, (ExtAbs(a) * ExtAbs(b)) \div 100))

\* a / b of two floats, b not zero
ExtDiv(a, b) ==
    IF IsNaN(a) \/ IsNaN(b) THEN NaN
    ELSE IF IsInf(a) THEN (IF IsInf(b) THEN NaN ELSE SignedInt(a, b, PInf))
    ELSE IF IsInf(b) \/ a = 0 THEN 0
    ELSE Overflow(SignedInt(a, b, (ExtAbs(a) * 100) \div ExtAbs(b)))

\* lambda a, b: a / b if b != 0 else 0.0  (NaN != 0 is True)
div_safe(a, b) == IF b # 0 THEN ExtDiv(a, b) ELSE 0

\* x / y if abs(y) > 1e-6 else 0.0  (abs(NaN) > 1e-6 is False; nothing raises)
protected_div(x, y) == IF ~IsNaN(y) /\ ExtAbs(y) > 0 THEN ExtDiv(x, y) ELSE 0

\* the value at c of the piecewise linear function through the points of
\* table, constant outside them
Interpolate(table, c) ==
    IF c <= table[1][1] THEN table[1][2]
    ELSE IF c >= table[Len(table)][1] THEN table[Len(table)][2]
    ELSE LET i == CHOOSE j \in 1..(Len(table) - 1) : table[j][1] <= c /\ c < table[j + 1][1]
             lo == table[i]
             hi == table[i + 1]
         IN lo[2] + ((hi[2] - lo[2]) * (c - lo[1])) \div (hi[1] - lo[1])

\* np.tanh, hundredths
ExtTanh(a) ==
    IF IsNaN(a) THEN NaN ELSE IF a = PInf THEN 100 ELSE IF a = NInf THEN -100
    ELSE Interpolate(<< <<-500, -100>>, <<-200, -96>>, <<-100, -76>>, <<-50, -46>>,
                        <<0, 0>>, <<50, 46>>, <<100, 76>>, <<200, 96>>, <<500, 100>> >>, a)

\* np.sign
ExtSign(a) == IF IsNaN(a) THEN NaN ELSE IF a > 0 THEN 100 ELSE IF a < 0 THEN -100 ELSE 0

\* the integer square root of n, between lo and hi
RECURSIVE SqrtBetween(_, _, _)
SqrtBetween(n, lo, hi) ==
    IF lo >= hi THEN lo
    ELSE LET mid == (lo + hi + 1) \div 2 IN
         IF mid * mid <= n THEN SqrtBetween(n, mid, hi) ELSE SqrtBetween(n, lo, mid - 1)

\* math.sqrt(abs(x)): sqrt(nan) is nan, sqrt(inf) is inf, nothing raises
protected_sqrt(x) ==
    IF IsNaN(x) THEN NaN ELSE IF IsInf(x) THEN PInf
    ELSE SqrtBetween(100 * ExtAbs(x), 0, 10000)

\* max(-10.0, min(10.0, x)): min keeps 10.0 unless x < 10.0, max keeps
\* -10.0 unless the result is greater; a comparison with NaN is False
clip10(x) ==
    LET m == IF ~IsNaN(x) /\ x < 1000 THEN x ELSE 1000
    IN IF m > -1000 THEN m ELSE -1000

\* 1 / (1 + exp(-c)) in 1e-4 units: exact (rounded) at the breakpoints,
\* linear between them; NaNProb for a NaN argument
NaNProb == -1
SigmoidTable ==
    << <<-1000, 0>>, <<-500, 67>>, <<-300, 474>>, <<-100, 2689>>, <<0, 5000>>,
       <<20, 5498>>, <<21, 5523>>, <<100, 7311>>, <<300, 9526>>, <<500, 9933>>,
       <<1000, 10000>> >>

Sigmoid(c) ==
    IF IsNaN(c) THEN NaNProb
    ELSE IF c >= 1000 THEN 10000
    ELSE LET i == CHOOSE j \in 1..(Len(SigmoidTable) - 1) :
                      SigmoidTable[j][1] <= c /\ c < SigmoidTable[j + 1][1]
             lo == SigmoidTable[i]
             hi == SigmoidTable[i + 1]
         IN lo[2] + ((hi[2] - lo[2]) * (c - lo[1])) \div (hi[1] - lo[1])

\* 1.0 / (1.0 + math.exp(-clip10(x))), hundredths
sigmoid_safe(x) == Sigmoid(clip10(x)) \div 100

\* 0.0 if x <= -0.999 else math.log1p(x), hundredths: NaN <= -0.999 is False
\* and log1p(nan) is nan, log1p(inf) is inf, nothing raises
protected_log(x) ==
    IF IsNaN(x) THEN NaN
    ELSE IF x <= -100 THEN 0
    ELSE IF x = PInf THEN PInf
    ELSE Interpolate(<< <<-99, -461>>, <<-90, -230>>, <<-50, -69>>, <<0, 0>>, <<100, 69>>,
                        <<200, 110>>, <<900, 230>>, <<9900, 461>>, <<999999, 921>> >>, x)

\* the primitives make_primitives registers, by name, and their arities
PrimArity ==
    [add |-> 2, sub |-> 2, mul |-> 2, div_safe |-> 2, div_prot |-> 2,
     tanh |-> 1, abs |-> 1, sign |-> 1, sqrt_safe |-> 1, clip10 |-> 1,
     sigmoid |-> 1, log1p_safe |-> 1]

ApplyPrimitive(name, args) ==
    CASE name = "add" -> ExtAdd(args[1], args[2])
      [] name = "sub" -> ExtSub(args[1], args[2])
      [] name = "mul" -> ExtMul(args[1], args[2])
      [] name = "div_safe" -> div_safe(args[1], args[2])
      [] name = "div_prot" -> protected_div(args[1], args[2])
      [] name = "tanh" -> ExtTanh(args[1])
      [] name = "abs" -> ExtAbs(args[1])
      [] name = "sign" -> ExtSign(args[1])
      [] name = "sqrt_safe" -> protected_sqrt(args[1])
      [] name = "clip10" -> clip10(args[1])
      [] name = "sigmoid" -> sigmoid_safe(args[1])
      [] name = "log1p_safe" -> protected_log(args[1])

\* gp.compile(expr, pset) applied to one row: <<value, index after subtree>>
RECURSIVE EvalAt(_, _, _, _)
EvalAt(tree, i, x, s) ==
    LET node == tree[i] IN
    IF node.arity = 0 THEN <<TerminalValue(node, x, s), i + 1>>
    ELSE IF node.arity = 1 THEN
        LET a == EvalAt(tree, i + 1, x, s) IN
        <<ApplyPrimitive(node.name, <<a[1]>>), a[2]>>
    ELSE
        LET a == EvalAt(tree, i + 1, x, s)
            b == EvalAt(tree, a[2], x, s) IN
        <<ApplyPrimitive(node.name, <<a[1], b[1]>>), b[2]>>

func(tree, x, s) == EvalAt(tree, 1, x, s)[1]

\* the individuals the model draws from
TreeSet ==
    { <<Prim("abs", 1), ARG0>>,
      <<Prim("add", 2), ARG0, ARG0>>,
      <<Prim("sub", 2), ARG0, ARG0>> }
    \cup { <<Prim("sub", 2), ARG0, Constant(Random(s))>> : s \in RngStates }
    \cup { <<Prim("add", 2), ARG0, Constant(Random(s))>> : s \in RngStates }

\* ---------------------------------------------------------- signal compiler
\* np.clip(raw, -10, 10): NaN stays NaN
Clip(v) == IF IsNaN(v) THEN NaN ELSE IF v < -1000 THEN -1000 ELSE IF v > 1000 THEN 1000 ELSE v

\* (prob > 0.55).astype(float): a comparison with NaN is False
Threshold(p) == IF p # NaNProb /\ p > 5500 THEN 1 ELSE 0

SignalAsRawSign(tree, X, s) ==
    [i \in 1..Len(X) |->
        [t |-> X[i].t,
         v |-> LET r == func(tree, X[i].x, s) IN IF IsNaN(r) THEN NaN ELSE IF r > 0 THEN 1 ELSE 0]]
\* signal(X) of compile_individual: one [t = index label, v = position] per
\* row [t, x] of the table
Signal(tree, X, s) ==
    [i \in 1..Len(X) |-> [t |-> X[i].t, v |-> Threshold(Sigmoid(Clip(func(tree, X[i].x, s))))]]

\* -------------------------------------------------------------- series
\* a pandas Series is the sequence of its [t = index label, v = value] rows
Series(vals) == [i \in 1..Len(vals) |-> [t |-> i - 1, v |-> vals[i]]]

\* returns * signal for two series over the same index
SeriesMul(a, b) == [i \in 1..Len(a) |-> [t |-> a[i].t, v |-> a[i].v * b[i].v]]

\* ------------------------------------------------------------- metrics.py
\* (1 + returns).cumprod(), returns in tenths, equity in 1e-4 units
RECURSIVE CumProd(_, _)
CumProd(rs, n) ==
    IF n = 0 THEN <<>>
    ELSE LET before == CumProd(rs, n - 1)
             last == IF n = 1 THEN 10000 ELSE before[n - 1]
         IN Append(before, (last * (10 + rs[n].v)) \div 10)

equity_curve(returns) == CumProd(returns, Len(returns))

\* ec.cummax()
RECURSIVE CumMax(_, _)
CumMax(ec, n) ==
    IF n = 0 THEN <<>>
    ELSE LET before == CumMax(ec, n - 1) IN
         Append(before, IF n > 1 /\ before[n - 1] > ec[n] THEN before[n - 1] ELSE ec[n])

\* dd = ec / roll_max - 1; dd.min()  (1e-4 units, never positive)
max_drawdown(returns) ==
    LET ec == equity_curve(returns)
        roll_max == CumMax(ec, Len(ec))
        dd == [i \in 1..Len(ec) |-> (ec[i] * 10000) \div roll_max[i] - 10000]
    IN CHOOSE m \in {dd[i] : i \in 1..Len(dd)} : \A i \in 1..Len(dd) : m <= dd[i]

\* ------------------------------------------------------- fitness_function
\* a fitness value w + f * 1e-5 from a count of 1e-5 units
Fit(n) == [w |-> n \div 100000, f |-> n % 100000]
FitLT(a, b) == a.w < b.w \/ (a.w = b.w /\ a.f < b.f)
FitLE(a, b) == a = b \/ FitLT(a, b)

\* -1e9
FLOOR == [w |-> -1000000000, f |-> 0]

\* equity.iloc[-1] - 1 of line 136
total_ret(signal, returns) ==
    LET equity == equity_curve(SeriesMul(returns, signal)) IN equity[Len(equity)] - 10000

fitness_functionAsNoFloor(signal, returns) ==
    LET tr == total_ret(signal, returns)
        mdd == max_drawdown(SeriesMul(returns, signal))
    IN IF tr < 3000 THEN <<Fit(-10000 * tr)>> ELSE <<Fit(10 * tr - 3 * mdd)>>
fitness_functionAsPositiveGradient(signal, returns) ==
    LET tr == total_ret(signal, returns)
        mdd == max_drawdown(SeriesMul(returns, signal))
    IN IF tr < 0 THEN <<FLOOR>>
       ELSE IF tr < 3000 THEN <<Fit(10000 * tr)>>
       ELSE <<Fit(10 * tr - 3 * mdd)>>
\* the 1-tuple (score,) of lines 139-145
fitness_function(signal, returns) ==
    LET tr == total_ret(signal, returns)
        mdd == max_drawdown(SeriesMul(returns, signal))
    IN IF tr < 0 THEN <<FLOOR>>
       ELSE IF tr < 3000 THEN <<Fit(-10000 * tr)>>
       ELSE <<Fit(10 * tr - 3 * mdd)>>

\* ------------------------------------------------------------ Hall of Fame
\* Fitness objects compare their weighted value tuples (weights = (1.0,))
FitnessGT(a, b) == FitLT(b[1], a[1])
FitnessLE(a, b) == FitLE(a[1], b[1])

\* similar = operator.is_: a stored copy is never the candidate object itself
similarAsIdentity(a, b) == FALSE
\* operator.eq on two individuals: equality of the node lists
similar(a, b) == a.tree = b.tree

InsertAt(h, pos0, item) == SubSeq(h, 1, pos0) \o <<item>> \o SubSeq(h, pos0 + 1, Len(h))

HofInsertAsBisectLeft(h, item) ==
    InsertAt(h, Len(h) - Cardinality({k \in 1..Len(h) : FitnessGT(item.fitness, h[k].fitness)}), item)
HofInsertAsAppend(h, item) == Append(h, item)
\* HallOfFame.insert: i = bisect_right(keys, item.fitness) over the ascending
\* keys, then items.insert(len(self) - i, copy of item)
HofInsert(h, item) ==
    LET i == Cardinality({k \in 1..Len(h) : FitnessLE(h[k].fitness, item.fitness)})
    IN InsertAt(h, Len(h) - i, item)

\* HallOfFame.remove(-1)
HofRemoveLast(h) == SubSeq(h, 1, Len(h) - 1)

HofAdmitsAsGE(h, cand) ==
    /\ (~FitnessGT(h[Len(h)].fitness, cand.fitness) \/ Len(h) < HOF_MAXSIZE)
    /\ \A k \in 1..Len(h) : ~similar(cand, h[k])
\* a test that looks for a similar entry only once the Hall of Fame is full
HofAdmitsAsSimilarWhenFull(h, cand) ==
    \/ Len(h) < HOF_MAXSIZE
    \/ /\ FitnessGT(cand.fitness, h[Len(h)].fitness)
       /\ \A k \in 1..Len(h) : ~similar(cand, h[k])
HofAdmitsAsNoSimilar(h, cand) ==
    FitnessGT(cand.fitness, h[Len(h)].fitness) \/ Len(h) < HOF_MAXSIZE
\* the test of HallOfFame.update on a non-empty Hall of Fame: better than the
\* worst entry or room left, and similar to no entry
HofAdmits(h, cand) ==
    /\ (FitnessGT(cand.fitness, h[Len(h)].fitness) \/ Len(h) < HOF_MAXSIZE)
    /\ \A k \in 1..Len(h) : ~similar(cand, h[k])

\* the Hall-of-Fame copy of population[i], stamped with its admission rank
HofCopy(population, i, g) ==
    [tree |-> population[i].tree, fitness |-> population[i].fitness,
     adm |-> g * Len(population) + i]

\* HallOfFame.update(population) after its first n individuals, in
\* generation g
RECURSIVE HofUpdateUpTo(_, _, _, _)
HofUpdateUpTo(h0, population, n, g) ==
    IF n = 0 THEN h0
    ELSE LET h == HofUpdateUpTo(h0, population, n - 1, g)
             cand == HofCopy(population, n, g)
         IN IF Len(h) = 0 /\ HOF_MAXSIZE # 0
                THEN HofInsert(h, HofCopy(population, 1, g))
            ELSE IF HofAdmits(h, cand)
                THEN HofInsert(IF Len(h) >= HOF_MAXSIZE THEN HofRemoveLast(h) ELSE h, cand)
            ELSE h

HofUpdate(h, population, g) == HofUpdateUpTo(h, population, Len(population), g)

\* ================================================================= state
VARIABLES
    \* --- one call of fitness_function, and the summary of the call before
    signal,      \* the position series handed to fitness_function
    returns,     \* the return series handed to fitness_function
    fitness,     \* <<>> before the call, the returned 1-tuple after it
    prev,        \* <<>> or <<[tr, mdd, fit]>> of the previous call
    \* --- two calls of one compiled signal function
    ind,         \* the individual given to compile_individual
    X,           \* the feature table: rows [t = index label, x = feature]
    rng,         \* state of the process-wide random generator
    calls,       \* how many times signal(X) has been called
    draws,       \* random draws made since the first call
    sig1,        \* result of the first call
    sig2,        \* result of the second call
    \* --- evolve(train_X, train_y, val_X, val_y)
    train_X,     \* training feature table
    train_y,     \* training returns
    val_X,       \* validation feature table
    val_y,       \* validation returns
    pc,          \* position in the loop body: vary, evaluate, update,
                 \* earlystop, done (idle outside evolve)
    gen,         \* the loop variable
    pop,         \* the population: [tree, fitness] per slot, fitness = <<>>
                 \* while invalid
    hof,         \* the Hall of Fame, best first
    evaluated,   \* the trees that have been given a fitness so far
    \* --- evolve, with the identity of its Individual objects
    heap,        \* the Individual objects: heap[r] = [tree, fitness] of object r
    popRef,      \* the population: one object reference per slot
    hofRef,      \* the Hall of Fame, best first: [ref, adm] per entry
    \* --- evolve, with the loops of varAnd step by step
    cursor,      \* the pair (mating loop) or the individual (mutation loop)
                 \* varAnd is at
    \* --- one process: import of strategy_ga, then calls of evolve
    run,         \* calls of evolve made so far
    first,       \* <<>> or <<[hof, gen]>>: what the first call returned with
    other,       \* random draws made outside evolve since the import
    \* --- one call of one primitive of the primitive set
    prim,        \* the name the primitive is registered under
    args,        \* its arguments
    out,         \* <<>> before the call, <<result>> after it
    \* --- calculate_transition_matrix(regime_labels)
    regime_labels,      \* the label of each period
    transition_matrix,  \* <<>> before the call, the returned matrix after
    \* --- _long_short_weights(forecasts, top_assets)
    forecasts,   \* one row of forecasts, one value per asset
    top_assets,  \* how many assets to hold on each side
    weights,     \* <<>> before the call, the returned weights after
    \* --- TacticalAssetAllocationRegime(fred_api_key), then
    \* --- fetch_macroeconomic_data()
    given_key,   \* the fred_api_key argument of the constructor ("None": absent)
    fred_api_key,  \* self.fred_api_key
    fred_client,   \* whether self.fred_client has been created
    requested,   \* series requested from the client so far
    macro_data,  \* the series (by position in fred_variables) that arrived
    fpc,         \* new, ready, fetching, raised_key, raised_nodata, returned
    \* --- train_val_test_split(df, y)
    df,          \* the feature table: its index labels in row order
    target,      \* y: the index labels of the target series in row order
    splits,      \* <<>> before the call, the three (table, series) pairs after
    \* --- two runs of evolve side by side, started from the same seed
    runs         \* <<>>, or the two runs: their splits, loop state, population, Hall of Fame

fitVars == <<signal, returns, fitness, prev>>
sigVars == <<ind, X, calls, draws, sig1, sig2>>
dataVars == <<train_X, train_y, val_X, val_y>>
evoVars == <<train_X, train_y, val_X, val_y, pc, gen, pop, hof, evaluated>>
objVars == <<heap, popRef, hofRef>>
\* the variables the specifications of fitness_function, compile_individual
\* and evolve leave alone
procVars == <<run, first, other>>
tailVars == <<prim, args, out, regime_labels, transition_matrix,
              forecasts, top_assets, weights,
              given_key, fred_api_key, fred_client, requested, macro_data, fpc,
              df, target, splits, runs>>
restVars == <<heap, popRef, hofRef, cursor, run, first, other,
              prim, args, out, regime_labels, transition_matrix,
              forecasts, top_assets, weights,
              given_key, fred_api_key, fred_client, requested, macro_data, fpc,
              df, target, splits, runs>>
vars == <<signal, returns, fitness, prev, ind, X, rng, calls, draws, sig1, sig2,
          train_X, train_y, val_X, val_y, pc, gen, pop, hof, evaluated,
          heap, popRef, hofRef, cursor, run, first, other,
          prim, args, out, regime_labels, transition_matrix,
          forecasts, top_assets, weights,
          given_key, fred_api_key, fred_client, requested, macro_data, fpc,
          df, target, splits, runs>>

\* ---------------------------------------------------------------- inputs
SeqsUpTo(S, lo, hi) == UNION {[1..n -> S] : n \in lo..hi}

\* <<signal, returns>>: two series of one length over one index; the
\* per-period returns of the target are in tenths
FitInputs ==
    UNION { {<<Series(q), Series(r)>> : q \in [1..n -> {0, 1}], r \in [1..n -> {-2, 1, 5}]} :
            n \in 1..MaxRows }
\* feature tables: the feature values of the rows are hundredths or
\* non-finite, the first index label is 0 or 7 (a split starts anywhere in
\* the history)
Tables ==
    {[i \in 1..Len(q) |-> [t |-> st + i - 1, x |-> q[i]]] :
        q \in SeqsUpTo({NaN, PInf, NInf, -50, 20, 100}, 0, MaxRows), st \in {0, 7}}

FitIdle == signal = <<>> /\ returns = <<>> /\ fitness = <<>> /\ prev = <<>>
SigIdle == ind = <<>> /\ X = <<>> /\ calls = 0 /\ draws = 0 /\ sig1 = <<>> /\ sig2 = <<>>
EvoIdle ==
    /\ train_X = <<>> /\ train_y = <<>> /\ val_X = <<>> /\ val_y = <<>>
    /\ pc = "idle" /\ gen = 0 /\ pop = <<>> /\ hof = <<>> /\ evaluated = {}
ObjIdle == heap = <<>> /\ popRef = <<>> /\ hofRef = <<>>
VarIdle == cursor = 0
ProcIdle == run = 0 /\ first = <<>> /\ other = 0
TailIdle ==
    /\ prim = "" /\ args = <<>> /\ out = <<>>
    /\ regime_labels = <<>> /\ transition_matrix = <<>>
    /\ forecasts = <<>> /\ top_assets = 0 /\ weights = <<>>
    /\ given_key = "" /\ fred_api_key = "" /\ fred_client = FALSE
    /\ requested = 0 /\ macro_data = {} /\ fpc = "idle"
    /\ df = <<>> /\ target = <<>> /\ splits = <<>> /\ runs = <<>>
RestIdle == ObjIdle /\ VarIdle /\ ProcIdle /\ TailIdle

\* ============================================= fitness_function, two calls
InitFit ==
    /\ \E p \in FitInputs : signal = p[1] /\ returns = p[2]
    /\ fitness = <<>>
    /\ prev = <<>>
    /\ SigIdle /\ EvoIdle /\ RestIdle /\ rng = SeedState

\* fitness_function(signal, returns)
FitEvaluate ==
    /\ fitness = <<>>
    /\ fitness' = fitness_function(signal, returns)
    /\ UNCHANGED <<signal, returns, prev, rng>>
    /\ UNCHANGED sigVars
    /\ UNCHANGED evoVars /\ UNCHANGED restVars

\* the caller keeps the outcome of the first pair and evaluates a second one
FitNextPair ==
    /\ fitness # <<>>
    /\ prev = <<>>
    /\ prev' = << [tr |-> total_ret(signal, returns),
                   mdd |-> max_drawdown(SeriesMul(returns, signal)),
                   fit |-> fitness[1]] >>
    /\ \E p \in FitInputs : signal' = p[1] /\ returns' = p[2]
    /\ fitness' = <<>>
    /\ UNCHANGED rng
    /\ UNCHANGED sigVars
    /\ UNCHANGED evoVars /\ UNCHANGED restVars

NextFit == FitEvaluate \/ FitNextPair
SpecFit == InitFit /\ [][NextFit]_vars

\* outcome of the current call, comparable with prev[1]
cur == [tr |-> total_ret(signal, returns),
        mdd |-> max_drawdown(SeriesMul(returns, signal)),
        fit |-> fitness[1]]
BothEvaluated == fitness # <<>> /\ prev # <<>>

InTier2(o) == o.tr >= 0 /\ o.tr < 3000
InTier3(o) == o.tr >= 3000

\* C1: whenever the total compounded return of the evaluated pair is
\* negative, the fitness is exactly the failure floor -1e9, whatever the size
\* of the loss and whatever the drawdown.
Thm_C1_FloorOnLoss ==
    (fitness # <<>> /\ total_ret(signal, returns) < 0) => fitness = <<FLOOR>>

\* two evaluated losing pairs with losses of different size and different
\* drawdowns
Wit_C1_TwoLosses ==
    /\ BothEvaluated
    /\ cur.tr < 0 /\ prev[1].tr < 0
    /\ cur.tr # prev[1].tr /\ cur.mdd # prev[1].mdd
    /\ cur.fit = FLOOR /\ prev[1].fit = FLOOR

\* C2: of two pairs with total return in [0, 0.30), the one with the higher
\* total return has the strictly higher fitness.
Cex_C2_Tier2Increasing ==
    (BothEvaluated /\ InTier2(cur) /\ InTier2(prev[1]) /\ prev[1].tr < cur.tr)
        => FitLT(prev[1].fit, cur.fit)

\* C3: a pair with total return in [0, 0.30) has a strictly lower fitness than
\* any pair with total return >= 0.30, whatever the two drawdowns.
Thm_C3_Tier2BelowTier3 ==
    BothEvaluated =>
        /\ (InTier2(prev[1]) /\ InTier3(cur)) => FitLT(prev[1].fit, cur.fit)
        /\ (InTier2(cur) /\ InTier3(prev[1])) => FitLT(cur.fit, prev[1].fit)

\* a profitable sub-threshold pair next to a qualifying pair that suffered a
\* drawdown
Wit_C3_Tier2AndTier3 ==
    /\ BothEvaluated
    /\ InTier2(prev[1]) /\ prev[1].tr > 0
    /\ InTier3(cur) /\ cur.mdd < 0

\* C4: for total return >= 0.30 the fitness is the total return minus 0.3
\* times the peak-to-trough decline (the decline is -mdd >= 0), so it never
\* exceeds the total return, and of two pairs with the same total return the
\* one with the deeper decline does not get the higher fitness.
Cex_C4_DrawdownPenalised ==
    /\ (fitness # <<>> /\ InTier3(cur)) =>
            /\ cur.fit = Fit(10 * cur.tr - 3 * (-cur.mdd))
            /\ FitLE(cur.fit, Fit(10 * cur.tr))
    /\ (BothEvaluated /\ InTier3(cur) /\ InTier3(prev[1])
            /\ cur.tr = prev[1].tr /\ cur.mdd < prev[1].mdd)
        => FitLE(cur.fit, prev[1].fit)

\* ================================================ compile_individual, twice
InitSig ==
    /\ ind \in TreeSet
    /\ X \in Tables
    /\ rng \in RngStates
    /\ calls = 0 /\ draws = 0 /\ sig1 = <<>> /\ sig2 = <<>>
    /\ FitIdle /\ EvoIdle /\ RestIdle

\* signal_fn = compile_individual(ind, pset, feat_cols); signal_fn(X)
SigFirstCall ==
    /\ calls = 0
    /\ sig1' = Signal(ind, X, rng)
    /\ calls' = 1
    /\ UNCHANGED <<ind, X, rng, draws, sig2>>
    /\ UNCHANGED fitVars
    /\ UNCHANGED evoVars /\ UNCHANGED restVars

\* any other code draws from the generator (tree construction, variation)
SigDraw ==
    /\ calls = 1
    /\ draws < MaxDraws
    /\ rng' = NextRng(rng)
    /\ draws' = draws + 1
    /\ UNCHANGED <<ind, X, calls, sig1, sig2>>
    /\ UNCHANGED fitVars
    /\ UNCHANGED evoVars /\ UNCHANGED restVars

\* the same compiled function, or a fresh compilation, called on the same table
SigSecondCall ==
    /\ calls = 1
    /\ sig2' = Signal(ind, X, rng)
    /\ calls' = 2
    /\ UNCHANGED <<ind, X, rng, draws, sig1>>
    /\ UNCHANGED fitVars
    /\ UNCHANGED evoVars /\ UNCHANGED restVars

NextSig == SigFirstCall \/ SigDraw \/ SigSecondCall
SpecSig == InitSig /\ [][NextSig]_vars

\* raw score of row i of the table, as the compiled function computes it now
raw(i) == func(ind, X[i].x, rng)

\* C5: the compiled signal has exactly one value per table row, carries the
\* table's index labels unchanged, and every value is 0 or 1 (none is NaN),
\* also on rows whose raw score is NaN or infinite and for constant raw
\* scores.
Thm_C5_BinarySignal ==
    calls >= 1 =>
        /\ Len(sig1) = Len(X)
        /\ \A i \in 1..Len(X) : sig1[i].t = X[i].t /\ sig1[i].v \in {0, 1}

\* a table whose index does not start at 0, with a NaN raw score on one row
\* and an infinite one on another
Wit_C5_NonFiniteRaw ==
    /\ calls >= 1 /\ Len(X) >= 2 /\ X[1].t # 0
    /\ \E i, j \in 1..Len(X) : IsNaN(raw(i)) /\ raw(j) = PInf /\ sig1[i].v = 0 /\ sig1[j].v = 1

\* C6: two calls of the compiled signal with the same individual and table
\* return the same series, however many random draws happened in between.
Thm_C6_Deterministic == calls = 2 => sig2 = sig1

\* an individual holding an ephemeral constant, called again after the
\* generator has moved on, on a table where the constant decides the signal
Wit_C6_AfterDraws ==
    /\ calls = 2 /\ draws >= 1 /\ Len(X) >= 1
    /\ \E k \in 1..Len(ind) : ind[k].name = "rand" /\ ind[k].value # Random(rng)
    /\ \E i \in 1..Len(X) : sig2[i].v = 1
    /\ \E i \in 1..Len(X) : sig2[i].v = 0 /\ IsFinite(X[i].x)

\* ================================================================== evolve
\* the training split and the two validation splits the model runs on
TrainTable == [i \in 1..3 |-> [t |-> i - 1, x |-> <<-50, 20, 100>>[i]]]
TrainReturns == Series(<<-2, 5, 1>>)
ValTable == [i \in 1..2 |-> [t |-> 2 + i, x |-> <<20, 100>>[i]]]
ValReturnChoices == { [i \in 1..2 |-> [t |-> 2 + i, v |-> q[i]]] : q \in {<<5, 2>>, <<5, 1>>} }

Min(a, b) == IF a < b THEN a ELSE b

\* equity.iloc[-1] (line 136) and .cumprod().iloc[-1] (line 192): the last
\* row of a series over the index of a split; an empty series has none and
\* the expression raises IndexError
IndexError(split_y) == Len(split_y) = 0

\* eval_ind of lines 160-163
eval_ind(tree, s) == fitness_function(Signal(tree, train_X, s), train_y)

\* (1 + val_y * val_sig).cumprod().iloc[-1] - 1 for hof[0], lines 189-192
val_total_ret(s) == total_ret(Signal(hof[1].tree, val_X, s), val_y)

\* the trees the initial population and the offspring are drawn from
EvoTrees ==
    { <<Prim("abs", 1), ARG0>>,
      <<Prim("add", 2), ARG0, ARG0>>,
      <<Prim("sub", 2), ARG0, Constant(0)>>,
      <<Prim("sub", 2), ARG0, Constant(25)>> }

\* lines 148-178: the toolbox, a random initial population without fitness,
\* an empty Hall of Fame
InitEvolve ==
    /\ train_X = TrainTable /\ train_y = TrainReturns
    /\ val_X = ValTable /\ val_y \in ValReturnChoices
    /\ rng = SeedState
    /\ pc = "vary" /\ gen = 0
    /\ pop \in [1..POP_SIZE -> {[tree |-> t, fitness |-> <<>>] : t \in EvoTrees}]
    /\ hof = <<>>
    /\ evaluated = {}
    /\ FitIdle /\ SigIdle /\ RestIdle

\* line 180, algorithms.varAnd(pop, toolbox, cxpb=0.5, mutpb=0.4): every
\* individual is cloned; each pair (1,2), (3,4), ... is mated with
\* probability cxpb; each individual is then mutated with probability mutpb;
\* an individual that was mated or mutated loses its fitness. Slot i is
\* left with the clone of pop[i], untouched (child[i] = <<>>), or with a
\* mated and/or mutated tree child[i] whose fitness has been deleted
Vary ==
    /\ pc = "vary"
    /\ \E child \in [1..POP_SIZE -> EvoTrees \cup {<<>>}] :
          pop' = [i \in 1..POP_SIZE |->
                     IF child[i] = <<>> THEN pop[i]
                     ELSE [tree |-> child[i], fitness |-> <<>>]]
    /\ rng' = NextRng(rng)
    /\ pc' = "evaluate"
    /\ UNCHANGED <<gen, hof, evaluated>>
    /\ UNCHANGED dataVars /\ UNCHANGED fitVars /\ UNCHANGED sigVars /\ UNCHANGED restVars

\* an evaluation that draws from the shared generator
EvaluateAsDrawing ==
    /\ pc = "evaluate"
    /\ pop' = [i \in 1..POP_SIZE |->
                 [pop[i] EXCEPT !.fitness = eval_ind(pop[i].tree, rng)]]
    /\ evaluated' = evaluated \cup {pop[i].tree : i \in 1..POP_SIZE}
    /\ rng' = NextRng(rng)
    /\ pc' = "update"
    /\ UNCHANGED <<gen, hof>>
    /\ UNCHANGED dataVars /\ UNCHANGED fitVars /\ UNCHANGED sigVars /\ UNCHANGED restVars

\* fitness values handed out one slot off: individual i gets the fitness of
\* its neighbour
EvaluateAsShifted ==
    /\ pc = "evaluate"
    /\ pop' = [i \in 1..POP_SIZE |->
                 [pop[i] EXCEPT !.fitness = eval_ind(pop[(i % POP_SIZE) + 1].tree, rng)]]
    /\ evaluated' = evaluated \cup {pop[i].tree : i \in 1..POP_SIZE}
    /\ pc' = "update"
    /\ UNCHANGED <<gen, hof, rng>>
    /\ UNCHANGED dataVars /\ UNCHANGED fitVars /\ UNCHANGED sigVars /\ UNCHANGED restVars

\* lines 181-183: every individual of the population is evaluated on the
\* training split and given its fitness; on an empty split the first
\* evaluation raises and evolve is left with the exception
Evaluate ==
    /\ pc = "evaluate"
    /\ IF IndexError(train_y)
           THEN pc' = "raised" /\ UNCHANGED <<pop, evaluated>>
           ELSE /\ pop' = [i \in 1..POP_SIZE |->
                             [pop[i] EXCEPT !.fitness = eval_ind(pop[i].tree, rng)]]
                /\ evaluated' = evaluated \cup {pop[i].tree : i \in 1..POP_SIZE}
                /\ pc' = "update"
    /\ UNCHANGED <<gen, hof, rng>>
    /\ UNCHANGED dataVars /\ UNCHANGED fitVars /\ UNCHANGED sigVars /\ UNCHANGED restVars

\* line 184: hof.update(pop)
UpdateHof ==
    /\ pc = "update"
    /\ hof' = HofUpdate(hof, pop, gen)
    /\ pc' = "earlystop"
    /\ UNCHANGED <<gen, pop, evaluated, rng>>
    /\ UNCHANGED dataVars /\ UNCHANGED fitVars /\ UNCHANGED sigVars /\ UNCHANGED restVars

\* a loop whose counter does not advance
EarlyStopAsNoCount ==
    /\ pc = "earlystop"
    /\ IF val_total_ret(rng) >= 8000
           THEN pc' = "done"
           ELSE pc' = "vary"
    /\ UNCHANGED <<gen, pop, hof, evaluated, rng>>
    /\ UNCHANGED dataVars /\ UNCHANGED fitVars /\ UNCHANGED sigVars /\ UNCHANGED restVars

\* the loop without the break of line 195
EarlyStopAsNoBreak ==
    /\ pc = "earlystop"
    /\ gen' = gen + 1
    /\ pc' = IF gen + 1 < NGEN THEN "vary" ELSE "done"
    /\ UNCHANGED <<pop, hof, evaluated, rng>>
    /\ UNCHANGED dataVars /\ UNCHANGED fitVars /\ UNCHANGED sigVars /\ UNCHANGED restVars

\* lines 188-195 and the loop header: leave the loop when hof[0] reaches a
\* validation return of 0.80 or the budget is used up; on an empty
\* validation split line 192 raises
EarlyStop ==
    /\ pc = "earlystop"
    /\ IF IndexError(val_y)
           THEN pc' = "raised" /\ gen' = gen
           ELSE IF val_total_ret(rng) >= 8000
               THEN pc' = "done" /\ gen' = gen
               ELSE /\ gen' = gen + 1
                    /\ pc' = IF gen + 1 < NGEN THEN "vary" ELSE "done"
    /\ UNCHANGED <<pop, hof, evaluated, rng>>
    /\ UNCHANGED dataVars /\ UNCHANGED fitVars /\ UNCHANGED sigVars /\ UNCHANGED restVars

NextEvolve == Vary \/ Evaluate \/ UpdateHof \/ EarlyStop
Spec == InitEvolve /\ [][NextEvolve]_vars

\* the Hall of Fame reflects every evaluation made so far (between an
\* evaluation and the update that follows it, it does not)
HofCurrent == pc \in {"vary", "evaluate", "earlystop", "done"}
HofTrees == {hof[k].tree : k \in 1..Len(hof)}
\* individuals given a fitness so far: one population per finished update
NumEvaluated ==
    IF pc = "earlystop" \/ (pc = "done" /\ val_total_ret(rng) >= 8000)
        THEN (gen + 1) * POP_SIZE ELSE gen * POP_SIZE

\* C7 (as amended): after every generation's update the Hall of Fame holds
\* the HOF_MAXSIZE structurally distinct trees of highest fitness among all
\* trees evaluated so far (all distinct trees while fewer than HOF_MAXSIZE
\* distinct ones have been evaluated), one entry per tree, each with the
\* fitness of its tree.
Thm_C7_TopDistinct ==
    HofCurrent =>
        /\ HofTrees \subseteq evaluated
        /\ Len(hof) = Min(HOF_MAXSIZE, Cardinality(evaluated))
        /\ Cardinality(HofTrees) = Len(hof)
        /\ \A k \in 1..Len(hof) : hof[k].fitness = eval_ind(hof[k].tree, rng)
        /\ \A t \in evaluated \ HofTrees :
                \A k \in 1..Len(hof) : FitnessLE(eval_ind(t, rng), hof[k].fitness)

\* a full Hall of Fame after more distinct trees than its capacity have been
\* evaluated, one of them twice
Wit_C7_FullAndDuplicates ==
    /\ pc = "earlystop" /\ gen >= 1
    /\ Len(hof) = HOF_MAXSIZE
    /\ Cardinality(evaluated) > HOF_MAXSIZE
    /\ Cardinality(evaluated) < NumEvaluated

\* C7 (as stated): after every generation's update the Hall of Fame holds
\* the HOF_MAXSIZE individuals of highest fitness among all individuals
\* evaluated so far, all of them while fewer than HOF_MAXSIZE have been
\* evaluated.
Cex_C7_TopIndividuals ==
    HofCurrent =>
        /\ Len(hof) = Min(HOF_MAXSIZE, NumEvaluated)
        /\ \A t \in evaluated \ HofTrees :
                \A k \in 1..Len(hof) : FitnessLE(eval_ind(t, rng), hof[k].fitness)

\* C8: the Hall of Fame never holds more than HOF_MAXSIZE entries and is in
\* non-increasing fitness order, so hof[0] has the maximum fitness.
Thm_C8_BoundedSorted ==
    /\ Len(hof) <= HOF_MAXSIZE
    /\ \A j, k \in 1..Len(hof) : j < k => FitnessLE(hof[k].fitness, hof[j].fitness)

\* a full Hall of Fame with entries of different fitness, after an update
\* that found it non-empty
Wit_C8_FullAfterUpdates ==
    /\ pc = "earlystop" /\ gen >= 1
    /\ Len(hof) = HOF_MAXSIZE
    /\ hof[1].fitness # hof[Len(hof)].fitness
    /\ \E k \in 1..Len(hof) : hof[k].adm > POP_SIZE

HofAdms(h) == {h[k].adm : k \in 1..Len(h)}

\* C9: the Hall of Fame never shrinks, and an entry leaves it only in an
\* update that admits an individual of strictly greater fitness.
Thm_C9_OnlyDisplacedByBetter ==
    [][ /\ Len(hof') >= Len(hof)
        /\ \A k \in 1..Len(hof) :
              hof[k].adm \notin HofAdms(hof') =>
                 \E j \in 1..Len(hof') :
                    /\ hof'[j].adm \notin HofAdms(hof)
                    /\ FitnessGT(hof'[j].fitness, hof[k].fitness) ]_vars

\* a full Hall of Fame none of whose entries stems from the first update:
\* the entries of the first update have been displaced
Wit_C9_Displaced ==
    /\ Len(hof) = HOF_MAXSIZE
    /\ \A k \in 1..Len(hof) : hof[k].adm > POP_SIZE

\* C10 (as amended): of two Hall-of-Fame entries of equal fitness the one
\* admitted later is ranked ahead, so hof[0] is the latest admitted of the
\* entries with the top fitness.
Thm_C10_LaterAheadOnTies ==
    \A j, k \in 1..Len(hof) :
        (j < k /\ hof[j].fitness = hof[k].fitness) => hof[j].adm > hof[k].adm

\* two entries of the top fitness admitted by different updates
Wit_C10_TopTie ==
    /\ Len(hof) >= 2
    /\ hof[1].fitness = hof[2].fitness
    /\ hof[2].adm <= POP_SIZE /\ hof[1].adm > POP_SIZE

\* C10 (as stated): of two Hall-of-Fame entries of equal fitness the one
\* admitted earlier is ranked ahead.
Cex_C10_EarlierAheadOnTies ==
    \A j, k \in 1..Len(hof) :
        (j < k /\ hof[j].fitness = hof[k].fitness) => hof[j].adm < hof[k].adm

\* ======================================= evolve, Individual objects by identity
\* Python binds names and list slots to objects. heap[r] is the Individual
\* with reference r; crossover, mutation and the assignment of a fitness
\* change an object in place, and every holder of r sees the change.

deepcopyAsAlias(h, r) == [heap |-> h, ref |-> r]
\* copy.deepcopy(individual): a new object with the same tree and fitness.
\* toolbox.clone (varAnd) and HallOfFame.insert both call it.
deepcopy(h, r) == [heap |-> Append(h, h[r]), ref |-> Len(h) + 1]

\* offspring = [toolbox.clone(ind) for ind in population], first n slots
RECURSIVE CloneAll(_, _, _)
CloneAll(h, refs, n) ==
    IF n = 0 THEN [heap |-> h, refs |-> <<>>]
    ELSE LET before == CloneAll(h, refs, n - 1)
             c == deepcopy(before.heap, refs[n])
         IN [heap |-> c.heap, refs |-> Append(before.refs, c.ref)]

\* mate / mutate on the first n offspring, in place: slot i's object gets
\* the tree child[i] and loses its fitness (child[i] = <<>>: left alone)
RECURSIVE VaryInPlace(_, _, _, _)
VaryInPlace(h, refs, child, n) ==
    IF n = 0 THEN h
    ELSE LET before == VaryInPlace(h, refs, child, n - 1) IN
         IF child[n] = <<>> THEN before
         ELSE [before EXCEPT ![refs[n]] = [tree |-> child[n], fitness |-> <<>>]]

\* ind.fitness.values = fit for the first n individuals, in place
RECURSIVE AssignFitness(_, _, _, _)
AssignFitness(h, refs, n, s) ==
    IF n = 0 THEN h
    ELSE LET before == AssignFitness(h, refs, n - 1, s) IN
         [before EXCEPT ![refs[n]].fitness = eval_ind(before[refs[n]].tree, s)]

\* HallOfFame.insert: item = deepcopy(item) for the first n entries of the
\* updated Hall of Fame nh that this update admitted from generation g; an
\* entry admitted before (its stamp a is in hrefs) keeps its reference
RECURSIVE InsertCopies(_, _, _, _, _, _)
InsertCopies(h, refs, hrefs, nh, n, g) ==
    IF n = 0 THEN [heap |-> h, hrefs |-> <<>>]
    ELSE LET before == InsertCopies(h, refs, hrefs, nh, n - 1, g)
             a == nh[n].adm
         IN IF \E k \in 1..Len(hrefs) : hrefs[k].adm = a
                THEN [heap |-> before.heap,
                      hrefs |-> Append(before.hrefs,
                          [ref |-> hrefs[CHOOSE k \in 1..Len(hrefs) : hrefs[k].adm = a].ref,
                           adm |-> a])]
                ELSE LET c == deepcopy(before.heap, refs[a - g * Len(refs)])
                     IN [heap |-> c.heap,
                         hrefs |-> Append(before.hrefs, [ref |-> c.ref, adm |-> a])]

\* the trees the offspring of the object-level run are drawn from
ObjTrees == { <<Prim("abs", 1), ARG0>>, <<Prim("sub", 2), ARG0, Constant(0)>> }

\* lines 148-178: POP_SIZE new Individual objects, none with a fitness
InitObj ==
    /\ train_X = TrainTable /\ train_y = TrainReturns
    /\ val_X = ValTable /\ val_y = [i \in 1..2 |-> [t |-> 2 + i, v |-> <<5, 1>>[i]]]
    /\ rng = SeedState
    /\ pc = "vary" /\ gen = 0
    /\ heap \in [1..POP_SIZE -> {[tree |-> t, fitness |-> <<>>] : t \in ObjTrees}]
    /\ popRef = [i \in 1..POP_SIZE |-> i]
    /\ hofRef = <<>>
    /\ pop = <<>> /\ hof = <<>> /\ evaluated = {}
    /\ FitIdle /\ SigIdle /\ VarIdle /\ ProcIdle /\ TailIdle

\* line 180, pop = algorithms.varAnd(pop, ...): the population is cloned and
\* the clones are mated and mutated in place
ObjVary ==
    /\ pc = "vary"
    /\ \E child \in [1..POP_SIZE -> ObjTrees \cup {<<>>}] :
          LET c == CloneAll(heap, popRef, POP_SIZE) IN
          /\ heap' = VaryInPlace(c.heap, c.refs, child, POP_SIZE)
          /\ popRef' = c.refs
    /\ rng' = NextRng(rng)
    /\ pc' = "evaluate"
    /\ UNCHANGED <<gen, hofRef, pop, hof, evaluated>>
    /\ UNCHANGED dataVars /\ UNCHANGED fitVars /\ UNCHANGED sigVars /\ UNCHANGED <<cursor, run, first, other>> /\ UNCHANGED tailVars

\* lines 181-183
ObjEvaluate ==
    /\ pc = "evaluate"
    /\ heap' = AssignFitness(heap, popRef, POP_SIZE, rng)
    /\ pc' = "update"
    /\ UNCHANGED <<gen, popRef, hofRef, pop, hof, evaluated, rng>>
    /\ UNCHANGED dataVars /\ UNCHANGED fitVars /\ UNCHANGED sigVars /\ UNCHANGED <<cursor, run, first, other>> /\ UNCHANGED tailVars

\* line 184, hof.update(pop)
ObjUpdateHof ==
    /\ pc = "update"
    /\ LET \* the Hall of Fame and the population as the values their
           \* references hold
           hofView == [k \in 1..Len(hofRef) |->
                          [tree |-> heap[hofRef[k].ref].tree,
                           fitness |-> heap[hofRef[k].ref].fitness,
                           adm |-> hofRef[k].adm]]
           popView == [i \in 1..Len(popRef) |-> heap[popRef[i]]]
           nh == HofUpdate(hofView, popView, gen)
           ins == InsertCopies(heap, popRef, hofRef, nh, Len(nh), gen)
       IN heap' = ins.heap /\ hofRef' = ins.hrefs
    /\ pc' = "earlystop"
    /\ UNCHANGED <<gen, popRef, pop, hof, evaluated, rng>>
    /\ UNCHANGED dataVars /\ UNCHANGED fitVars /\ UNCHANGED sigVars /\ UNCHANGED <<cursor, run, first, other>> /\ UNCHANGED tailVars

\* lines 188-195 and the loop header
ObjEarlyStop ==
    /\ pc = "earlystop"
    /\ IF total_ret(Signal(heap[hofRef[1].ref].tree, val_X, rng), val_y) >= 8000
           THEN pc' = "done" /\ gen' = gen
           ELSE /\ gen' = gen + 1
                /\ pc' = IF gen + 1 < NGEN THEN "vary" ELSE "done"
    /\ UNCHANGED <<heap, popRef, hofRef, pop, hof, evaluated, rng>>
    /\ UNCHANGED dataVars /\ UNCHANGED fitVars /\ UNCHANGED sigVars /\ UNCHANGED <<cursor, run, first, other>> /\ UNCHANGED tailVars

NextObj == ObjVary \/ ObjEvaluate \/ ObjUpdateHof \/ ObjEarlyStop
SpecObj == InitObj /\ [][NextObj]_vars

\* C11: an entry that stays in the Hall of Fame has the same tree and the
\* same fitness after every step: the cloning, mating and mutation of a
\* later generation, the assignment of fitness values to the live
\* individuals, and later updates all leave it as it was admitted.
Thm_C11_SnapshotsKept ==
    [][ \A k \in 1..Len(hofRef) : \A j \in 1..Len(hofRef') :
            hofRef'[j].adm = hofRef[k].adm =>
                heap'[hofRef'[j].ref] = heap[hofRef[k].ref] ]_vars

\* an entry admitted in the previous generation from slot i, after the
\* individual now in slot i (the clone of the one it was copied from) has
\* been mated or mutated and given another fitness
Wit_C11_SourceVaried ==
    /\ pc = "update" /\ gen >= 1
    /\ \E k \in 1..Len(hofRef) : \E i \in 1..POP_SIZE :
          /\ hofRef[k].adm = (gen - 1) * POP_SIZE + i
          /\ heap[popRef[i]].tree # heap[hofRef[k].ref].tree
          /\ heap[popRef[i]].fitness # <<>>
          /\ heap[popRef[i]].fitness # heap[hofRef[k].ref].fitness

\* C12: hof.update(pop) applied a second time to the population it has just
\* been updated from changes nothing: the same entries, in the same order.
Thm_C12_UpdateIdempotent ==
    pc = "earlystop" => HofUpdate(hof, pop, gen) = hof

\* after an update of a non-empty Hall of Fame that admitted one individual
\* of the population, turned another away and kept an older entry
Wit_C12_PartlyAdmitted ==
    /\ pc = "earlystop" /\ gen >= 1
    /\ Len(hof) = HOF_MAXSIZE
    /\ \E k \in 1..Len(hof) : hof[k].adm > gen * POP_SIZE
    /\ \E k \in 1..Len(hof) : hof[k].adm <= gen * POP_SIZE
    /\ \E i \in 1..POP_SIZE : pop[i].tree \notin HofTrees

\* ================================== evolve, crossover and mutation on trees
\* gp.staticLimit(key=len, max_value=80): the largest tree mate and mutate
\* may return
max_value == 5

\* PrimitiveTree.searchSubtree(begin): the index after the subtree that
\* starts at begin
RECURSIVE SubtreeEnd(_, _, _)
SubtreeEnd(tree, end, total) ==
    IF total = 0 THEN end ELSE SubtreeEnd(tree, end + 1, total + tree[end].arity - 1)
searchSubtree(tree, begin) == SubtreeEnd(tree, begin + 1, tree[begin].arity)

\* tree[begin:end] = sub
ReplaceSlice(tree, begin, end, sub) ==
    SubSeq(tree, 1, begin - 1) \o sub \o SubSeq(tree, end, Len(tree))

\* gp.cxOnePoint(ind1, ind2) with the crossover points index1, index2 it
\* draws from range(1, len(ind)): the two subtrees are exchanged; no
\* crossover when a tree is a single node
cxOnePoint(ind1, ind2, index1, index2) ==
    IF Len(ind1) < 2 \/ Len(ind2) < 2 THEN <<ind1, ind2>>
    ELSE LET end1 == searchSubtree(ind1, index1)
             end2 == searchSubtree(ind2, index2)
         IN << ReplaceSlice(ind1, index1, end1, SubSeq(ind2, index2, end2 - 1)),
               ReplaceSlice(ind2, index2, end2, SubSeq(ind1, index1, end1 - 1)) >>

\* gp.mutUniform(individual, expr, pset) with the point index it draws from
\* range(len(individual)) and the expression expr() returns
mutUniform(individual, index, e) ==
    ReplaceSlice(individual, index, searchSubtree(individual, index), e)

\* toolbox.expr, gp.genFull: the full tree of the smallest height over one
\* binary primitive and the feature
GenFullTrees == { <<Prim("add", 2), ARG0, ARG0>> }

\* a wrapper that puts a bare terminal in the place of a rejected offspring
staticLimitAsTerminal(keep_inds, new_inds, choice) ==
    [i \in 1..Len(new_inds) |->
        IF Len(new_inds[i]) > max_value THEN <<ARG0>> ELSE new_inds[i]]
staticLimitAsUnlimited(keep_inds, new_inds, choice) == new_inds
\* the wrapper gp.staticLimit puts around mate and mutate: an offspring
\* longer than max_value is replaced by random.choice(keep_inds), the copy
\* of a parent made before the operation
staticLimit(keep_inds, new_inds, choice) ==
    [i \in 1..Len(new_inds) |->
        IF Len(new_inds[i]) > max_value THEN keep_inds[choice[i]] ELSE new_inds[i]]

NoFitness(tree) == [tree |-> tree, fitness |-> <<>>]

\* lines 148-178 with the population toolbox.population draws from genFull
InitVar ==
    /\ train_X = TrainTable /\ train_y = TrainReturns
    /\ val_X = ValTable /\ val_y = [i \in 1..2 |-> [t |-> 2 + i, v |-> <<5, 1>>[i]]]
    /\ rng = SeedState
    /\ pc = "vary" /\ gen = 0 /\ cursor = 0
    /\ pop \in [1..POP_SIZE -> {NoFitness(t) : t \in GenFullTrees}]
    /\ hof = <<>>
    /\ evaluated = {}
    /\ FitIdle /\ SigIdle /\ ObjIdle /\ ProcIdle /\ TailIdle

\* varAnd: offspring = [toolbox.clone(ind) for ind in population]
VarClone ==
    /\ pc = "vary"
    /\ pc' = "mate" /\ cursor' = 1
    /\ UNCHANGED <<gen, pop, hof, evaluated, rng>>
    /\ UNCHANGED dataVars /\ UNCHANGED fitVars /\ UNCHANGED sigVars /\ UNCHANGED objVars /\ UNCHANGED procVars /\ UNCHANGED tailVars

\* a mating step that drops an offspring over the size limit instead of
\* putting a parent in its place
VarMateAsDropping ==
    /\ pc = "mate"
    /\ LET i == 2 * cursor
           a == pop[i - 1].tree
           b == pop[i].tree
           points(tree) == IF Len(tree) < 2 THEN {1} ELSE 2..Len(tree)
           WithinLimit(t) == Len(t) <= max_value
       IN \/ pop' = pop
          \/ \E index1 \in points(a), index2 \in points(b) :
                LET kept == SelectSeq(cxOnePoint(a, b, index1, index2), WithinLimit)
                IN pop' = SubSeq(pop, 1, i - 2)
                            \o [k \in 1..Len(kept) |-> NoFitness(kept[k])]
                            \o SubSeq(pop, i + 1, Len(pop))
    /\ IF 2 * (cursor + 1) <= POP_SIZE
           THEN pc' = "mate" /\ cursor' = cursor + 1
           ELSE pc' = "mutate" /\ cursor' = 1
    /\ rng' = NextRng(rng)
    /\ UNCHANGED <<gen, hof, evaluated>>
    /\ UNCHANGED dataVars /\ UNCHANGED fitVars /\ UNCHANGED sigVars /\ UNCHANGED objVars /\ UNCHANGED procVars /\ UNCHANGED tailVars

\* varAnd, one turn of the mating loop: pair (i - 1, i) is mated with
\* probability cxpb and both offspring lose their fitness
VarMate ==
    /\ pc = "mate"
    /\ LET i == 2 * cursor
           a == pop[i - 1].tree
           b == pop[i].tree
           \* the crossover points random.choice can return for a tree
           points(tree) == IF Len(tree) < 2 THEN {1} ELSE 2..Len(tree)
       IN \/ pop' = pop
          \/ \E index1 \in points(a), index2 \in points(b), choice \in [1..2 -> 1..2] :
                LET new_inds == staticLimit(<<a, b>>, cxOnePoint(a, b, index1, index2), choice)
                IN pop' = [pop EXCEPT ![i - 1] = NoFitness(new_inds[1]),
                                      ![i] = NoFitness(new_inds[2])]
    /\ IF 2 * (cursor + 1) <= POP_SIZE
           THEN pc' = "mate" /\ cursor' = cursor + 1
           ELSE pc' = "mutate" /\ cursor' = 1
    /\ rng' = NextRng(rng)
    /\ UNCHANGED <<gen, hof, evaluated>>
    /\ UNCHANGED dataVars /\ UNCHANGED fitVars /\ UNCHANGED sigVars /\ UNCHANGED objVars /\ UNCHANGED procVars /\ UNCHANGED tailVars

\* varAnd, one turn of the mutation loop: individual i is mutated with
\* probability mutpb and loses its fitness
VarMutate ==
    /\ pc = "mutate"
    /\ LET a == pop[cursor].tree
       IN \/ pop' = pop
          \/ \E index \in 1..Len(a), e \in GenFullTrees :
                LET new_inds == staticLimit(<<a>>, <<mutUniform(a, index, e)>>, <<1>>)
                IN pop' = [pop EXCEPT ![cursor] = NoFitness(new_inds[1])]
    /\ IF cursor < POP_SIZE
           THEN pc' = "mutate" /\ cursor' = cursor + 1
           ELSE pc' = "evaluate" /\ cursor' = 0
    /\ rng' = NextRng(rng)
    /\ UNCHANGED <<gen, hof, evaluated>>
    /\ UNCHANGED dataVars /\ UNCHANGED fitVars /\ UNCHANGED sigVars /\ UNCHANGED objVars /\ UNCHANGED procVars /\ UNCHANGED tailVars

NextVar == VarClone \/ VarMate \/ VarMutate \/ Evaluate \/ UpdateHof \/ EarlyStop
SpecVar == InitVar /\ [][NextVar]_vars

\* C13: no individual of the population and no entry of the Hall of Fame
\* has more than max_value nodes, at any point of any generation.
Thm_C13_SizeBounded ==
    /\ \A i \in 1..Len(pop) : Len(pop[i].tree) <= max_value
    /\ \A k \in 1..Len(hof) : Len(hof[k].tree) <= max_value

\* crossover and mutation have grown a tree to the limit, in the population
\* of a later generation and in the Hall of Fame
Wit_C13_AtTheLimit ==
    /\ gen >= 1 /\ pc = "earlystop"
    /\ \E i \in 1..Len(pop) : Len(pop[i].tree) = max_value
    /\ \E k \in 1..Len(hof) : Len(hof[k].tree) = max_value

\* C14: the early-stop check follows the Hall-of-Fame update of every
\* generation. When the validation return of hof[0] is at least 0.80 the
\* loop ends there, with generations to spare or not: nothing is varied,
\* evaluated or admitted afterwards. When it is below 0.80 and generations
\* remain, the next generation starts; a generation starts for no other
\* reason.
Thm_C14_EarlyStop ==
    [][ /\ pc = "update" => pc' = "earlystop"
        /\ pc = "earlystop" /\ val_total_ret(rng) >= 8000 =>
              pc' = "done" /\ gen' = gen /\ pop' = pop /\ hof' = hof /\ evaluated' = evaluated
        /\ pc = "earlystop" /\ val_total_ret(rng) < 8000 /\ gen + 1 < NGEN =>
              pc' = "vary" /\ gen' = gen + 1
        /\ pc' = "vary" => pc = "earlystop" /\ val_total_ret(rng) < 8000
        /\ pc # "done" ]_vars

\* stopped by the validation return after the first generation, with
\* generations to spare
Wit_C14_StoppedEarly ==
    /\ pc = "done" /\ gen + 1 < NGEN
    /\ val_total_ret(rng) >= 8000
    /\ NumEvaluated = POP_SIZE

\* the steps evolve has at most left to take: four per generation of the
\* budget that has not started, fewer inside a generation, none after the
\* return
StepsLeft ==
    IF pc = "done" THEN 0
    ELSE 4 * (NGEN - gen) -
         (CASE pc = "vary" -> 0 [] pc = "evaluate" -> 1 [] pc = "update" -> 2
            [] pc = "earlystop" -> 3)

\* C15: every step of evolve uses up some of a finite budget of steps, so
\* evolve cannot run forever; it starts at most NGEN generations, and it has
\* returned only when the budget is used up or the early stop has fired, in
\* both cases with a Hall of Fame that is not empty.
Thm_C15_Terminates ==
    /\ [](/\ pc \in {"vary", "evaluate", "update", "earlystop", "done"}
          /\ gen <= NGEN /\ NumEvaluated <= NGEN * POP_SIZE
          /\ StepsLeft >= 0
          /\ pc = "done" => /\ Len(hof) >= 1
                            /\ gen = NGEN \/ val_total_ret(rng) >= 8000)
    /\ [][StepsLeft' < StepsLeft]_vars

\* returned with the budget used up and no early stop
Wit_C15_BudgetUsedUp ==
    /\ pc = "done" /\ gen = NGEN
    /\ val_total_ret(rng) < 8000
    /\ Len(hof) >= 1

\* ======================== one process: import strategy_ga, evolve, evolve
\* cxpb and mutpb of line 180, hundredths
cxpb == 50
mutpb == 40

\* random.choice(seq) when random.random() returns u
choice(seq, u) == seq[(u * Len(seq)) \div 100 + 1]

\* the expressions toolbox.expr and the variation operators draw, in the
\* order the generator picks among them
EvoTreeSeq ==
    << <<Prim("abs", 1), ARG0>>,
       <<Prim("add", 2), ARG0, ARG0>>,
       <<Prim("sub", 2), ARG0, Constant(0)>>,
       <<Prim("sub", 2), ARG0, Constant(25)>> >>

\* toolbox.population(n) with the generator in state s: n individuals, each
\* drawn from the generator; <<the population, the generator afterwards>>
RECURSIVE population(_, _)
population(n, s) ==
    IF n = 0 THEN [pop |-> <<>>, rng |-> s]
    ELSE LET before == population(n - 1, s) IN
         [pop |-> Append(before.pop, NoFitness(choice(EvoTreeSeq, Random(before.rng)))),
          rng |-> NextRng(before.rng)]

\* varAnd, the mating loop from pair (i - 1, i) on: a draw below cxpb mates
\* the pair, and the offspring are what the next draws make of them
RECURSIVE MateFrom(_, _, _)
MateFrom(p, s, i) ==
    IF i > Len(p) THEN [pop |-> p, rng |-> s]
    ELSE IF Random(s) < cxpb
        THEN LET s1 == NextRng(s)
                 s2 == NextRng(s1)
             IN MateFrom([p EXCEPT ![i - 1] = NoFitness(choice(EvoTreeSeq, Random(s1))),
                                   ![i] = NoFitness(choice(EvoTreeSeq, Random(s2)))],
                         NextRng(s2), i + 2)
        ELSE MateFrom(p, NextRng(s), i + 2)

\* varAnd, the mutation loop from individual i on: a draw below mutpb
\* mutates it, and the mutant is what the next draw makes of it
RECURSIVE MutateFrom(_, _, _)
MutateFrom(p, s, i) ==
    IF i > Len(p) THEN [pop |-> p, rng |-> s]
    ELSE IF Random(s) < mutpb
        THEN LET s1 == NextRng(s) IN
             MutateFrom([p EXCEPT ![i] = NoFitness(choice(EvoTreeSeq, Random(s1)))],
                        NextRng(s1), i + 1)
        ELSE MutateFrom(p, NextRng(s), i + 1)

\* algorithms.varAnd(pop, toolbox, cxpb, mutpb) with the generator in state s
varAnd(p, s) == LET mated == MateFrom(p, s, 2) IN MutateFrom(mated.pop, mated.rng, 1)

\* what evolve returns with: the Hall of Fame (trees and fitness values in
\* order) and the number of generations run
Returned ==
    [hof |-> [k \in 1..Len(hof) |-> [tree |-> hof[k].tree, fitness |-> hof[k].fitness]],
     gen |-> gen]

\* lines 21-23: the import seeds the generator; evolve has not been called
InitProc ==
    /\ rng = SeedState
    /\ train_X = TrainTable /\ train_y = TrainReturns
    /\ val_X = ValTable /\ val_y \in ValReturnChoices
    /\ pc = "idle" /\ gen = 0 /\ pop = <<>> /\ hof = <<>> /\ evaluated = {}
    /\ run = 0 /\ first = <<>> /\ other = 0
    /\ FitIdle /\ SigIdle /\ ObjIdle /\ VarIdle /\ TailIdle

\* any other user of the random module draws a number between the import
\* and a call of evolve, or between two calls
OtherDraw ==
    /\ pc \in {"idle", "done"} /\ run < 2
    /\ other < MaxDraws
    /\ rng' = NextRng(rng)
    /\ other' = other + 1
    /\ UNCHANGED <<run, first>>
    /\ UNCHANGED evoVars /\ UNCHANGED fitVars /\ UNCHANGED sigVars
    /\ UNCHANGED objVars /\ UNCHANGED cursor /\ UNCHANGED tailVars

\* a call evolve(train_X, train_y, val_X, val_y), lines 148-178: the
\* generator is used as it is found; the population is drawn from it
CallEvolve ==
    /\ pc \in {"idle", "done"} /\ run < 2
    /\ first' = IF run = 1 THEN <<Returned>> ELSE first
    /\ run' = run + 1
    /\ LET drawn == population(POP_SIZE, rng) IN pop' = drawn.pop /\ rng' = drawn.rng
    /\ hof' = <<>> /\ gen' = 0 /\ evaluated' = {}
    /\ pc' = "vary"
    /\ UNCHANGED other
    /\ UNCHANGED dataVars /\ UNCHANGED fitVars /\ UNCHANGED sigVars
    /\ UNCHANGED objVars /\ UNCHANGED cursor /\ UNCHANGED tailVars

\* line 180 with the offspring the generator determines
SeededVary ==
    /\ pc = "vary"
    /\ LET varied == varAnd(pop, rng) IN pop' = varied.pop /\ rng' = varied.rng
    /\ pc' = "evaluate"
    /\ UNCHANGED <<gen, hof, evaluated>>
    /\ UNCHANGED dataVars /\ UNCHANGED fitVars /\ UNCHANGED sigVars /\ UNCHANGED restVars

NextProc == OtherDraw \/ CallEvolve \/ SeededVary \/ Evaluate \/ UpdateHof \/ EarlyStop
SpecProc == InitProc /\ [][NextProc]_vars

\* C16: the second call of evolve in a process, with the seed and the
\* inputs of the first, returns the Hall of Fame (trees, fitness values,
\* order) and the generation count the first call returned, whatever was
\* drawn from the generator before or between the calls.
Cex_C16_SameResult ==
    (run = 2 /\ pc = "done") => Returned = first[1]

\* ============================ evolve called with whatever the caller has
\* lines 148-151: the call; nothing has been checked or created yet. A
\* split is the one of the other specifications or empty (table <<>> and
\* series <<>>: train_val_test_split of a short history returns them)
InitEntry ==
    /\ \E tr \in {<<TrainTable, TrainReturns>>, <<<<>>, <<>>>>} :
          train_X = tr[1] /\ train_y = tr[2]
    /\ \E va \in {<<ValTable, [i \in 1..2 |-> [t |-> 2 + i, v |-> <<5, 1>>[i]]]>>,
                  <<<<>>, <<>>>>} :
          val_X = va[1] /\ val_y = va[2]
    /\ rng = SeedState
    /\ pc = "entry" /\ gen = 0
    /\ pop = <<>> /\ hof = <<>> /\ evaluated = {}
    /\ FitIdle /\ SigIdle /\ RestIdle

\* lines 151-178: feat_cols, the primitive set, the toolbox, the population
\* and the empty Hall of Fame; the splits are not looked at
Enter ==
    /\ pc = "entry"
    /\ pop' \in [1..POP_SIZE -> {NoFitness(t) : t \in EvoTrees}]
    /\ pc' = "vary"
    /\ UNCHANGED <<gen, hof, evaluated, rng>>
    /\ UNCHANGED dataVars /\ UNCHANGED fitVars /\ UNCHANGED sigVars /\ UNCHANGED restVars

NextEntry == Enter \/ Vary \/ Evaluate \/ UpdateHof \/ EarlyStop
SpecEntry == InitEntry /\ [][NextEntry]_vars

\* C17: given an empty training or validation split, evolve fails at its
\* entry, with a descriptive error ("rejected"), before any individual is
\* generated, varied or evaluated.
Cex_C17_FailsFast ==
    (Len(train_X) = 0 \/ Len(val_X) = 0) =>
        /\ pc \in {"entry", "rejected"}
        /\ pop = <<>> /\ evaluated = {} /\ hof = <<>>


\* =============================================== one call of a primitive
\* the floats a primitive is handed are feature values, ephemeral constants
\* or results of inner primitives
InitPrim ==
    /\ prim \in DOMAIN PrimArity
    /\ args \in [1..PrimArity[prim] ->
                    {NaN, PInf, NInf, -999999, -100, -50, 0, 20, 100, 999999}]
    /\ out = <<>>
    /\ regime_labels = <<>> /\ transition_matrix = <<>>
    /\ forecasts = <<>> /\ top_assets = 0 /\ weights = <<>>
    /\ given_key = "" /\ fred_api_key = "" /\ fred_client = FALSE
    /\ requested = 0 /\ macro_data = {} /\ fpc = "idle"
    /\ df = <<>> /\ target = <<>> /\ splits = <<>> /\ runs = <<>>
    /\ rng = SeedState
    /\ FitIdle /\ SigIdle /\ EvoIdle /\ ObjIdle /\ VarIdle /\ ProcIdle

\* func(*row) reaches the primitive: it is called and returns
CallPrimitive ==
    /\ prim # "" /\ out = <<>>
    /\ out' = <<ApplyPrimitive(prim, args)>>
    /\ UNCHANGED <<prim, args>>
    /\ UNCHANGED <<regime_labels, transition_matrix, forecasts, top_assets, weights>>
    /\ UNCHANGED <<given_key, fred_api_key, fred_client, requested, macro_data, fpc>>
    /\ UNCHANGED <<df, target, splits, runs>>
    /\ UNCHANGED rng
    /\ UNCHANGED fitVars /\ UNCHANGED sigVars /\ UNCHANGED evoVars
    /\ UNCHANGED objVars /\ UNCHANGED cursor /\ UNCHANGED procVars

SpecPrim == InitPrim /\ [][CallPrimitive]_vars

\* C18: every primitive of the primitive set is total: whatever floats it is
\* given, it returns a finite float, and clip10 returns one in [-10, 10]
Cex_C18_TotalAndFinite ==
    out # <<>> =>
        /\ IsFinite(out[1])
        /\ (prim = "clip10" => out[1] >= -1000 /\ out[1] <= 1000)


\* ============================== calculate_transition_matrix(regime_labels)
\* n_regimes: int = 6
n_regimes == 6
Regimes == 0..(n_regimes - 1)

\* transition_matrix[current_regime, next_regime] += 1 for t in
\* range(len(regime_labels) - 1)
TransitionCount(labels, i, j) ==
    Cardinality({t \in 1..(Len(labels) - 1) : labels[t] = i /\ labels[t + 1] = j})

RECURSIVE SumOver(_, _)
SumOver(f, S) ==
    IF S = {} THEN 0
    ELSE LET x == CHOOSE y \in S : TRUE IN f[x] + SumOver(f, S \ {x})

\* transition_matrix.sum(axis=1)
row_sums(labels, i) == SumOver([j \in Regimes |-> TransitionCount(labels, i, j)], Regimes)

\* np.divide(transition_matrix, row_sums, out=zeros, where=row_sums != 0):
\* an entry is the fraction num / den; a row whose sum is 0 keeps the zeros
\* of out
Normalize(labels) ==
    [i \in Regimes |-> [j \in Regimes |->
        IF row_sums(labels, i) # 0
        THEN [num |-> TransitionCount(labels, i, j), den |-> row_sums(labels, i)]
        ELSE [num |-> 0, den |-> 1]]]

InitTrans ==
    /\ regime_labels \in SeqsUpTo(Regimes, 0, MaxLabels)
    /\ transition_matrix = <<>>
    /\ prim = "" /\ args = <<>> /\ out = <<>>
    /\ forecasts = <<>> /\ top_assets = 0 /\ weights = <<>>
    /\ given_key = "" /\ fred_api_key = "" /\ fred_client = FALSE
    /\ requested = 0 /\ macro_data = {} /\ fpc = "idle"
    /\ df = <<>> /\ target = <<>> /\ splits = <<>> /\ runs = <<>>
    /\ rng = SeedState
    /\ FitIdle /\ SigIdle /\ EvoIdle /\ ObjIdle /\ VarIdle /\ ProcIdle

calculate_transition_matrix ==
    /\ transition_matrix = <<>>
    /\ transition_matrix' = Normalize(regime_labels)
    /\ UNCHANGED regime_labels
    /\ UNCHANGED <<prim, args, out, forecasts, top_assets, weights>>
    /\ UNCHANGED <<given_key, fred_api_key, fred_client, requested, macro_data, fpc>>
    /\ UNCHANGED <<df, target, splits, runs>>
    /\ UNCHANGED rng
    /\ UNCHANGED fitVars /\ UNCHANGED sigVars /\ UNCHANGED evoVars
    /\ UNCHANGED objVars /\ UNCHANGED cursor /\ UNCHANGED procVars

SpecTrans == InitTrans /\ [][calculate_transition_matrix]_vars

\* C19: the matrix calculate_transition_matrix returns is n_regimes by
\* n_regimes and every one of its rows sums to 1, whatever labels of
\* 0..n_regimes-1 it is given
Cex_C19_RowsSumToOne ==
    transition_matrix # <<>> =>
        /\ DOMAIN transition_matrix = Regimes
        /\ \A i \in Regimes :
            /\ DOMAIN transition_matrix[i] = Regimes
            /\ SumOver([j \in Regimes |-> transition_matrix[i][j].num], Regimes)
                   = transition_matrix[i][0].den


\* ================================ _long_short_weights(forecasts, top_assets)
\* pd.to_numeric(forecasts, errors='coerce').fillna(0.0)
fillna(row) == [i \in 1..Len(row) |-> IF IsNaN(row[i]) THEN 0 ELSE row[i]]

\* Series.nlargest(n).index, keep='first': the n highest values, the earlier
\* position first among equal values; the whole index when n >= len
nlargest(row, n) ==
    {i \in 1..Len(row) :
        Cardinality({j \in 1..Len(row) :
            row[j] > row[i] \/ (row[j] = row[i] /\ j < i)}) < n}

\* Series.nsmallest(n).index, keep='first'
nsmallest(row, n) ==
    {i \in 1..Len(row) :
        Cardinality({j \in 1..Len(row) :
            row[j] < row[i] \/ (row[j] = row[i] /\ j < i)}) < n}

\* weights = 0.0; weights[top_long] = 0.5 / len(top_long); then
\* weights[top_short] = -0.5 / len(top_short): the later assignment wins on
\* an asset that is in both. A weight is the fraction num / den.
long_short_weights(row, n) ==
    LET forecasts_numeric == fillna(row)
        top_long == nlargest(forecasts_numeric, n)
        top_short == nsmallest(forecasts_numeric, n)
    IN [i \in 1..Len(row) |->
          IF i \in top_short THEN [num |-> -1, den |-> 2 * Cardinality(top_short)]
          ELSE IF i \in top_long THEN [num |-> 1, den |-> 2 * Cardinality(top_long)]
          ELSE [num |-> 0, den |-> 1]]

\* weights.sum(axis=1) of one row, as a fraction
RECURSIVE WeightSum(_, _)
WeightSum(w, k) ==
    IF k = 0 THEN [num |-> 0, den |-> 1]
    ELSE LET a == WeightSum(w, k - 1)
             b == w[k]
         IN [num |-> a.num * b.den + b.num * a.den, den |-> a.den * b.den]

\* a forecast of one asset is a number, or a missing / non-numeric entry
\* (NaN after pd.to_numeric(errors='coerce'))
InitPort ==
    /\ forecasts \in SeqsUpTo({NaN, -100, 0, 200}, 1, MaxAssets)
    /\ top_assets \in 1..MaxAssets
    /\ weights = <<>>
    /\ prim = "" /\ args = <<>> /\ out = <<>>
    /\ regime_labels = <<>> /\ transition_matrix = <<>>
    /\ given_key = "" /\ fred_api_key = "" /\ fred_client = FALSE
    /\ requested = 0 /\ macro_data = {} /\ fpc = "idle"
    /\ df = <<>> /\ target = <<>> /\ splits = <<>> /\ runs = <<>>
    /\ rng = SeedState
    /\ FitIdle /\ SigIdle /\ EvoIdle /\ ObjIdle /\ VarIdle /\ ProcIdle

\* construct_portfolio(forecasts, 'long_short', top_assets), one row
construct_portfolio ==
    /\ forecasts # <<>> /\ weights = <<>>
    /\ weights' = long_short_weights(forecasts, top_assets)
    /\ UNCHANGED <<forecasts, top_assets>>
    /\ UNCHANGED <<prim, args, out, regime_labels, transition_matrix>>
    /\ UNCHANGED <<given_key, fred_api_key, fred_client, requested, macro_data, fpc>>
    /\ UNCHANGED <<df, target, splits, runs>>
    /\ UNCHANGED rng
    /\ UNCHANGED fitVars /\ UNCHANGED sigVars /\ UNCHANGED evoVars
    /\ UNCHANGED objVars /\ UNCHANGED cursor /\ UNCHANGED procVars

SpecPort == InitPort /\ [][construct_portfolio]_vars

\* C20: for every forecast row and every top_assets >= 1 the long_short
\* weights of the row sum to zero, tied and missing forecasts included
Cex_C20_NetZero ==
    weights # <<>> => WeightSum(weights, Len(weights)).num = 0


\* ===================== TacticalAssetAllocationRegime: the FRED API key
\* the caller constructs the instance with no key (None), an empty key or
\* a key of their own
InitFred ==
    /\ given_key \in {"None", "", "test_key"}
    /\ fred_api_key = "" /\ fred_client = FALSE
    /\ requested = 0 /\ macro_data = {} /\ fpc = "new"
    /\ df = <<>> /\ target = <<>> /\ splits = <<>> /\ runs = <<>>
    /\ prim = "" /\ args = <<>> /\ out = <<>>
    /\ regime_labels = <<>> /\ transition_matrix = <<>>
    /\ forecasts = <<>> /\ top_assets = 0 /\ weights = <<>>
    /\ rng = SeedState
    /\ FitIdle /\ SigIdle /\ EvoIdle /\ ObjIdle /\ VarIdle /\ ProcIdle

\* __init__: self.fred_api_key = fred_api_key or "149095a7c7bdd559b94280c6bdf6b3f9"
\* (None and "" are falsy); self.fred_client = None
TacticalAssetAllocationRegime ==
    /\ fpc = "new"
    /\ fred_api_key' = IF given_key \in {"None", ""}
                           THEN "149095a7c7bdd559b94280c6bdf6b3f9" ELSE given_key
    /\ fred_client' = FALSE
    /\ fpc' = "ready"
    /\ UNCHANGED <<given_key, requested, macro_data>>
    /\ UNCHANGED <<df, target, splits, runs>>
    /\ UNCHANGED <<prim, args, out, regime_labels, transition_matrix,
                   forecasts, top_assets, weights>>
    /\ UNCHANGED rng
    /\ UNCHANGED fitVars /\ UNCHANGED sigVars /\ UNCHANGED evoVars
    /\ UNCHANGED objVars /\ UNCHANGED cursor /\ UNCHANGED procVars

\* fetch_macroeconomic_data: the check of the key and the creation of the
\* client; one turn of the loop over fred_variables (the series arrives, or
\* it is empty or the request fails); the end of the loop
fetch_macroeconomic_data ==
    /\ \/ /\ fpc = "ready"
          /\ IF fred_api_key = ""
                THEN fpc' = "raised_key" /\ UNCHANGED fred_client
                ELSE fpc' = "fetching" /\ fred_client' = TRUE
          /\ UNCHANGED <<requested, macro_data>>
       \/ /\ fpc = "fetching" /\ requested < MaxSeries
          /\ requested' = requested + 1
          /\ macro_data' \in {macro_data, macro_data \cup {requested + 1}}
          /\ UNCHANGED <<fpc, fred_client>>
       \/ /\ fpc = "fetching" /\ requested = MaxSeries
          /\ fpc' = IF macro_data = {} THEN "raised_nodata" ELSE "returned"
          /\ UNCHANGED <<requested, macro_data, fred_client>>
    /\ UNCHANGED <<given_key, fred_api_key>>
    /\ UNCHANGED <<df, target, splits, runs>>
    /\ UNCHANGED <<prim, args, out, regime_labels, transition_matrix,
                   forecasts, top_assets, weights>>
    /\ UNCHANGED rng
    /\ UNCHANGED fitVars /\ UNCHANGED sigVars /\ UNCHANGED evoVars
    /\ UNCHANGED objVars /\ UNCHANGED cursor /\ UNCHANGED procVars

SpecFred == InitFred /\ [][TacticalAssetAllocationRegime \/ fetch_macroeconomic_data]_vars

\* C21: on an instance constructed without a FRED API key,
\* fetch_macroeconomic_data raises the "FRED API key required" ValueError
\* before it creates a client or requests any series
Cex_C21_RaisesWithoutKey ==
    (given_key = "None" /\ fpc \notin {"new", "ready"}) =>
        fpc = "raised_key" /\ fred_client = FALSE /\ requested = 0


\* ------------------------------------------------ selection and variation
\* toolbox.register("select", tools.selTournament, tournsize=5)
tournsize == 5

\* C22: the individuals that enter variation have been chosen by tournament
\* selection over the evaluated current population: when varAnd is applied,
\* every individual handed to it carries a fitness and is the fittest of a
\* sample of tournsize individuals of the population
Cex_C22_TournamentBeforeVariation ==
    [][(pc = "vary" /\ pc' = "evaluate") =>
        \A i \in 1..Len(pop) :
            /\ \A j \in 1..Len(pop) : pop[j].fitness # <<>>
            /\ \E aspirants \in [1..tournsize -> 1..Len(pop)] :
                  /\ \E k \in 1..tournsize : aspirants[k] = i
                  /\ \A k \in 1..tournsize :
                        FitnessLE(pop[aspirants[k]].fitness, pop[i].fitness)]_vars


\* C23: the randomly generated initial population (the Individual objects
\* 1..POP_SIZE) is evaluated before the first variation: once varAnd has
\* been applied for the first time, every initial individual has a fitness
Cex_C23_InitialEvaluatedFirst ==
    (heap # <<>> /\ (gen > 0 \/ pc # "vary")) =>
        \A r \in 1..POP_SIZE : heap[r].fitness # <<>>


Thm_C25_GenerationBarrier ==
    (pc \in {"update", "earlystop"} \/ (pc = "vary" /\ gen >= 1)) =>
        \A i \in 1..POP_SIZE :
            /\ pop[i].fitness # <<>>
            /\ pop[i].fitness =
                  fitness_function(Signal(pop[i].tree, TrainTable, rng), TrainReturns)

\* the variation of a later generation begins with a population whose
\* individuals have different trees and different fitness values
Wit_C25_NextVariation ==
    /\ pc = "vary" /\ gen >= 1
    /\ \E i, j \in 1..POP_SIZE :
          pop[i].tree # pop[j].tree /\ pop[i].fitness # pop[j].fitness


\* ------------------------------------------------------------------- C27
\* C27: compiling an individual, computing its signal and computing its
\* fitness leave the shared generator and the trees as they were: the step
\* that evaluates the population on the training split changes neither the
\* generator state nor any individual's tree, the Hall-of-Fame update and
\* the validation check of hof[0] change neither the generator state nor a
\* tree of the population, the validation check leaves the Hall of Fame as
\* it is, and the generator state changes only in a variation step
Thm_C27_EvaluationFrame ==
    [][ /\ pc \in {"evaluate", "update", "earlystop"} =>
              /\ rng' = rng
              /\ \A i \in 1..POP_SIZE : pop'[i].tree = pop[i].tree
        /\ pc = "earlystop" => hof' = hof
        /\ rng' # rng => pc = "vary" /\ pc' = "evaluate" ]_vars

\* a second generation has been evaluated on the training split and hof[0]
\* on the validation split, after the generator was advanced twice
Wit_C27_EvaluatedAfterDraws ==
    /\ pc = "vary" /\ gen >= 1
    /\ rng # SeedState
    /\ \A i \in 1..POP_SIZE : pop[i].fitness # <<>>
    /\ hof # <<>>


\* ------------------------------------------------------------------- C28
\* C28: the population has POP_SIZE slots at every point of every
\* generation, each holding an individual with a tree: cloning, mating,
\* mutation and the replacement of an offspring over the size limit neither
\* add nor remove a slot
Thm_C28_FixedSize ==
    /\ DOMAIN pop = 1..POP_SIZE
    /\ \A i \in 1..POP_SIZE : Len(pop[i].tree) >= 1

\* the mating step of a later generation has left a pair of offspring at
\* the size limit, between which a crossover yields an offspring over the
\* limit
Wit_C28_MatedAtTheLimit ==
    /\ pc = "mutate" /\ cursor = 1 /\ gen >= 1
    /\ pop[1].fitness = <<>> /\ pop[2].fitness = <<>>
    /\ Len(pop[1].tree) = max_value /\ Len(pop[2].tree) = max_value
    /\ \E index1 \in 2..Len(pop[1].tree), index2 \in 2..Len(pop[2].tree) :
          Len(cxOnePoint(pop[1].tree, pop[2].tree, index1, index2)[1]) > max_value


\* ------------------------------------------------------------------- C29
\* C29: the Hall of Fame never holds two entries with the same expression
\* tree, neither between updates nor after any individual of an update in
\* progress, and an individual whose tree is already held is passed over by
\* the update, whether or not the Hall of Fame is full.
Thm_C29_NoDuplicateTrees ==
    LET Distinct(h) == \A j, k \in 1..Len(h) : h[j].tree = h[k].tree => j = k
    IN /\ Distinct(hof)
       /\ pc = "update" =>
             \A n \in 1..POP_SIZE :
                 LET before == HofUpdateUpTo(hof, pop, n - 1, gen)
                     after == HofUpdateUpTo(hof, pop, n, gen)
                 IN /\ Distinct(after)
                    /\ (\E k \in 1..Len(before) : before[k].tree = pop[n].tree)
                           => after = before

\* after the first update the whole population is copies of one tree and
\* the Hall of Fame, with room left, holds it once
Wit_C29_OneSlotForDuplicates ==
    /\ pc = "earlystop" /\ gen = 0
    /\ Len(hof) = 1 /\ Len(hof) < HOF_MAXSIZE
    /\ \A i \in 1..POP_SIZE : pop[i].tree = hof[1].tree


\* ===================================================== train_val_test_split
\* a split whose cut points are rounded to the nearest row
train_val_test_splitAsRounded(frame, y) ==
    LET n == Len(frame)
        train_end == (6 * n + 5) \div 10
        val_end == (8 * n + 5) \div 10
        iloc(s, a, b) == SubSeq(s, a + 1, IF b < Len(s) THEN b ELSE Len(s))
    IN << <<iloc(frame, 0, train_end), iloc(y, 0, train_end)>>,
          <<iloc(frame, train_end, val_end), iloc(y, train_end, val_end)>>,
          <<iloc(frame, val_end, n), iloc(y, val_end, Len(y))>> >>

\* lines 26-36. n = len(df); train_end = int(n * 0.6); val_end = int(n * 0.8):
\* the doubles 0.6 and 0.8 differ from 3/5 and 4/5 by less than 2^-54 of
\* their value, so for every n below 2^53 the product n * 0.6 (n * 0.8) is
\* rounded to the whole number 3n/5 (4n/5) when that is whole and stays
\* strictly between its neighbours otherwise, and int() gives floor(3n/5)
\* and floor(4n/5). .iloc[a:b] takes the rows at positions a .. b-1 and cuts
\* the range at the end of the table; .iloc[a:] runs to the end
train_val_test_split(frame, y) ==
    LET n == Len(frame)
        train_end == (3 * n) \div 5
        val_end == (4 * n) \div 5
        iloc(s, a, b) == SubSeq(s, a + 1, IF b < Len(s) THEN b ELSE Len(s))
    IN << <<iloc(frame, 0, train_end), iloc(y, 0, train_end)>>,
          <<iloc(frame, train_end, val_end), iloc(y, train_end, val_end)>>,
          <<iloc(frame, val_end, n), iloc(y, val_end, Len(y))>> >>

\* main, lines 199-201: X, y = features.build_features(price) gives a
\* feature table and a target series over the same, increasing index
InitSplit ==
    /\ \E q \in SeqsUpTo({-50, 20}, 0, MaxSplitRows), st \in {0, 7} :
          /\ df = [i \in 1..Len(q) |-> [t |-> st + i - 1, x |-> q[i]]]
          /\ target = [i \in 1..Len(q) |-> [t |-> st + i - 1, v |-> i % 3]]
    /\ splits = <<>> /\ runs = <<>>
    /\ given_key = "" /\ fred_api_key = "" /\ fred_client = FALSE
    /\ requested = 0 /\ macro_data = {} /\ fpc = "idle"
    /\ prim = "" /\ args = <<>> /\ out = <<>>
    /\ regime_labels = <<>> /\ transition_matrix = <<>>
    /\ forecasts = <<>> /\ top_assets = 0 /\ weights = <<>>
    /\ rng = SeedState
    /\ FitIdle /\ SigIdle /\ EvoIdle /\ ObjIdle /\ VarIdle /\ ProcIdle

\* main, line 202: (train_X, train_y), (val_X, val_y), (test_X, test_y) =
\* train_val_test_split(X, y)
SplitTables ==
    /\ splits = <<>>
    /\ splits' = train_val_test_split(df, target)
    /\ UNCHANGED <<df, target, runs>>
    /\ UNCHANGED <<given_key, fred_api_key, fred_client, requested, macro_data, fpc>>
    /\ UNCHANGED <<prim, args, out, regime_labels, transition_matrix,
                   forecasts, top_assets, weights>>
    /\ UNCHANGED rng
    /\ UNCHANGED fitVars /\ UNCHANGED sigVars /\ UNCHANGED evoVars
    /\ UNCHANGED objVars /\ UNCHANGED cursor /\ UNCHANGED procVars

SpecSplit == InitSplit /\ [][SplitTables]_vars

\* C30: for every table length n the three parts returned are the rows at
\* positions [0, floor(0.6n)), [floor(0.6n), floor(0.8n)) and
\* [floor(0.8n), n) of the features and of the targets alike: put one after
\* the other they are the table again (every row once, in its order), the
\* parts of features and targets carry the same index labels, and every
\* validation row is later than every training row and earlier than every
\* test row.
Thm_C30_ContiguousSplit ==
    splits # <<>> =>
        LET n == Len(df)
            lenTrain == Len(splits[1][1])
            lenVal == Len(splits[2][1])
            labels(s) == {s[i].t : i \in 1..Len(s)}
        IN /\ 5 * lenTrain <= 3 * n /\ 3 * n < 5 * (lenTrain + 1)
           /\ 5 * (lenTrain + lenVal) <= 4 * n /\ 4 * n < 5 * (lenTrain + lenVal + 1)
           /\ splits[1][1] \o splits[2][1] \o splits[3][1] = df
           /\ splits[1][2] \o splits[2][2] \o splits[3][2] = target
           /\ \A k \in 1..3 :
                 /\ Len(splits[k][1]) = Len(splits[k][2])
                 /\ \A i \in 1..Len(splits[k][1]) : splits[k][1][i].t = splits[k][2][i].t
           /\ \A j, k \in 1..3 : j # k => labels(splits[j][1]) \cap labels(splits[k][1]) = {}
           /\ \A a \in labels(splits[1][1]), b \in labels(splits[2][1]) : a < b
           /\ \A b \in labels(splits[2][1]), c \in labels(splits[3][1]) : b < c
           /\ \A a \in labels(splits[1][1]), c \in labels(splits[3][1]) : a < c

\* a table whose length is no multiple of five has been split into three
\* non-empty parts
Wit_C30_ThreeParts ==
    /\ splits # <<>>
    /\ Len(df) % 5 # 0
    /\ \A k \in 1..3 : splits[k][1] # <<>> /\ splits[k][2] # <<>>


\* ========================================== two runs of evolve, side by side
\* the trees the initial population and the offspring of the two runs are
\* drawn from: on the training split of the evolve model the first has the
\* floor fitness and the second the highest
TwinTrees ==
    { <<Prim("abs", 1), ARG0>>,
      <<Prim("add", 2), ARG0, ARG0>> }

\* a loop body that scores the population on the validation split
LoopBodyAsValidationFitness(r, child, s) ==
    LET varied == [i \in 1..POP_SIZE |->
                      IF child[i] = <<>> THEN r.pop[i]
                      ELSE [tree |-> child[i], fitness |-> <<>>]]
        scoredUpTo[n \in 0..POP_SIZE] ==
            IF n = 0 THEN <<>>
            ELSE Append(scoredUpTo[n - 1],
                        [tree |-> varied[n].tree,
                         fitness |-> fitness_function(Signal(varied[n].tree, r.val_X, s), r.val_y)])
        scored == scoredUpTo[POP_SIZE]
        h == HofUpdate(r.hof, scored, r.gen)
    IN IF IndexError(r.val_y)
           THEN [r EXCEPT !.pop = varied, !.pc = "raised"]
       ELSE IF total_ret(Signal(h[1].tree, r.val_X, s), r.val_y) >= 8000
           THEN [r EXCEPT !.pop = scored, !.hof = h, !.pc = "stopped"]
       ELSE [r EXCEPT !.pop = scored, !.hof = h, !.gen = r.gen + 1,
                      !.pc = IF r.gen + 1 < NGEN THEN "loop" ELSE "done"]

\* lines 179-195, one turn of the loop of evolve for the run r, with the
\* offspring child that varAnd draws from the generator state s: variation,
\* the evaluation of every individual on the training split of the run, the
\* update of the Hall of Fame, and the validation check of hof[0]
LoopBody(r, child, s) ==
    LET varied == [i \in 1..POP_SIZE |->
                      IF child[i] = <<>> THEN r.pop[i]
                      ELSE [tree |-> child[i], fitness |-> <<>>]]
        scoredUpTo[n \in 0..POP_SIZE] ==
            IF n = 0 THEN <<>>
            ELSE Append(scoredUpTo[n - 1],
                        [tree |-> varied[n].tree,
                         fitness |-> fitness_function(Signal(varied[n].tree, r.train_X, s), r.train_y)])
        scored == scoredUpTo[POP_SIZE]
        h == HofUpdate(r.hof, scored, r.gen)
    IN IF IndexError(r.train_y)
           THEN [r EXCEPT !.pop = varied, !.pc = "raised"]
       ELSE IF IndexError(r.val_y)
           THEN [r EXCEPT !.pop = scored, !.hof = h, !.pc = "raised"]
       ELSE IF total_ret(Signal(h[1].tree, r.val_X, s), r.val_y) >= 8000
           THEN [r EXCEPT !.pop = scored, !.hof = h, !.pc = "stopped"]
       ELSE [r EXCEPT !.pop = scored, !.hof = h, !.gen = r.gen + 1,
                      !.pc = IF r.gen + 1 < NGEN THEN "loop" ELSE "done"]

\* lines 148-178 of evolve in two processes: both start from
\* random.seed(SEED) (lines 21-23) and so from the same initial population. The first run gets
\* the splits of the evolve model; the second gets the same splits, or
\* splits that differ from them in the validation returns, the validation
\* features, an empty validation split, the test split, validation returns
\* and test split, the training returns, or the training features
InitTwin ==
    /\ \E p \in [1..POP_SIZE -> {[tree |-> t, fitness |-> <<>>] : t \in TwinTrees}] :
       \E other2 \in 0..7 :
          LET base == [train_X |-> TrainTable, train_y |-> TrainReturns,
                       val_X |-> ValTable,
                       val_y |-> [i \in 1..2 |-> [t |-> 2 + i, v |-> <<5, 2>>[i]]],
                       test_y |-> [i \in 1..1 |-> [t |-> 5, v |-> 1]],
                       pc |-> "loop", gen |-> 0, pop |-> p, hof |-> <<>>]
              val_y2 == [i \in 1..2 |-> [t |-> 2 + i, v |-> <<5, 1>>[i]]]
              test_y2 == [i \in 1..1 |-> [t |-> 5, v |-> -3]]
              second ==
                  CASE other2 = 0 -> base
                    [] other2 = 1 -> [base EXCEPT !.val_y = val_y2]
                    [] other2 = 2 ->
                         [base EXCEPT !.val_X = [i \in 1..2 |-> [t |-> 2 + i, x |-> <<-50, 100>>[i]]]]
                    [] other2 = 3 -> [base EXCEPT !.val_X = <<>>, !.val_y = <<>>]
                    [] other2 = 4 -> [base EXCEPT !.test_y = test_y2]
                    [] other2 = 5 -> [base EXCEPT !.val_y = val_y2, !.test_y = test_y2]
                    [] other2 = 6 -> [base EXCEPT !.train_y = Series(<<5, -2, 1>>)]
                    [] other2 = 7 ->
                         [base EXCEPT !.train_X = [i \in 1..3 |-> [t |-> i - 1, x |-> <<100, 20, -50>>[i]]]]
          IN runs = <<base, second>>
    /\ rng = SeedState
    /\ df = <<>> /\ target = <<>> /\ splits = <<>>
    /\ given_key = "" /\ fred_api_key = "" /\ fred_client = FALSE
    /\ requested = 0 /\ macro_data = {} /\ fpc = "idle"
    /\ prim = "" /\ args = <<>> /\ out = <<>>
    /\ regime_labels = <<>> /\ transition_matrix = <<>>
    /\ forecasts = <<>> /\ top_assets = 0 /\ weights = <<>>
    /\ FitIdle /\ SigIdle /\ EvoIdle /\ ObjIdle /\ VarIdle /\ ProcIdle

\* one turn of the loop in every run that is still in its loop; the runs
\* draw from generators in the same state, and varAnd's draws depend on the
\* trees alone, so both get the same offspring
TwinGeneration ==
    /\ \E k \in 1..2 : runs[k].pc = "loop"
    /\ \E child \in [1..POP_SIZE -> TwinTrees \cup {<<>>}] :
          runs' = [k \in 1..2 |->
                      IF runs[k].pc = "loop"
                          THEN LoopBody(runs[k], child, NextRng(rng))
                          ELSE runs[k]]
    /\ rng' = NextRng(rng)
    /\ UNCHANGED <<df, target, splits>>
    /\ UNCHANGED <<given_key, fred_api_key, fred_client, requested, macro_data, fpc>>
    /\ UNCHANGED <<prim, args, out, regime_labels, transition_matrix,
                   forecasts, top_assets, weights>>
    /\ UNCHANGED fitVars /\ UNCHANGED sigVars /\ UNCHANGED evoVars
    /\ UNCHANGED objVars /\ UNCHANGED cursor /\ UNCHANGED procVars

SpecTwin == InitTwin /\ [][TwinGeneration]_vars

\* C26: two runs started from the same seed have, after the same number of
\* generations, (a) the same population with the same fitness values and the
\* same Hall of Fame whenever their training splits are the same, whatever
\* their validation and test splits are, and (b) taken the same decision
\* (stop, go on, fail) whenever their validation splits and the trees of
\* their hof[0] are the same, whatever their training splits are.
Thm_C26_DataSeparation ==
    runs # <<>> =>
        LET a == runs[1]
            b == runs[2]
            Completed(r) == IF r.pc \in {"stopped", "raised"} THEN r.gen + 1 ELSE r.gen
        IN Completed(a) = Completed(b) =>
              /\ (a.train_X = b.train_X /\ a.train_y = b.train_y)
                     => a.pop = b.pop /\ a.hof = b.hof
              /\ (/\ a.val_X = b.val_X /\ a.val_y = b.val_y
                  /\ a.hof # <<>> /\ b.hof # <<>>
                  /\ a.hof[1].tree = b.hof[1].tree)
                     => a.pc = b.pc

\* the first run has stopped on its validation split in the generation
\* after which the second, with the same training split and another
\* validation split, goes on; individuals of different fitness have been
\* scored
Wit_C26_OneStoppedOneGoesOn ==
    /\ runs # <<>>
    /\ runs[1].pc = "stopped" /\ runs[2].pc \in {"loop", "done"}
    /\ runs[2].gen = runs[1].gen + 1
    /\ runs[1].gen >= 1
    /\ runs[1].train_y = runs[2].train_y
    /\ runs[1].val_y # runs[2].val_y
    /\ \E i, j \in 1..POP_SIZE : runs[1].pop[i].fitness # runs[1].pop[j].fitness

====
